---- MODULE Spec2Model ----
(***************************************************************************)
(* A model of viberecipe's Tandoor integration: the TandoorClient and its  *)
(* authentication-scheme fallback, the two export routes (/api/tandoor and *)
(* /api/tandoor/import) and the step adapters mapSteps and                 *)
(* refineTandoorSteps.                                                     *)
(*                                                                         *)
(* Conventions.  A JavaScript string is a sequence of one-character        *)
(* strings where its characters matter (step instructions) and a TLA+      *)
(* string where only its identity matters (messages, error texts).  An     *)
(* optional value (undefined or null in the source) is a sequence of       *)
(* length 0 (None) or 1 (Some(v)).                                         *)
(***************************************************************************)
EXTENDS Integers, Sequences, FiniteSets, TLC

VARIABLES
    \* ---- the adapters, applied as pure functions
    fnInput,        \* the arguments of the call
    fnOp,           \* "none" before the call, then the function applied
    fnOutput,       \* its result
    \* ---- one invocation of an export route and its TandoorClient
    request,        \* the incoming request of the route
    pc,             \* the position of the route handler
    authScheme,     \* TandoorClient.authScheme
    log,            \* the HTTP requests issued so far, with their answers
    parseResult,    \* what parseRecipeFromUrl returned (None before)
    createResult,   \* what createRecipe returned (None before)
    uploadResult,   \* what uploadImageFromUrl returned (None before)
    result,         \* the NextResponse of the route (None before)
    \* ---- one invocation of POST /api/extract
    req,            \* the incoming request
    extractPc,      \* the position of the handler
    extractLog,     \* the outbound calls so far: content fetch, generateContent, image HEAD
    text,           \* response.text() of the model (None before)
    parsedRecipe,   \* const recipe = JSON.parse(cleanJson) (None before)
    extractResult,  \* the NextResponse of the route (None before)
    \* ---- the page (Home) and the requests it has in flight
    isLoading,      \* useState(false)
    recipe,         \* useState<Recipe | null>(null)
    lastInputRef,   \* useRef<LastInput | null>(null)
    calls,          \* the calls of handleExtract and handleReset so far, in order
    inFlight,       \* the calls whose fetch has not resolved yet
    shownFrom,      \* the call whose response setRecipe last stored (0: none)
    settled         \* the fetches that have resolved, with their outcome

fnVars == <<fnInput, fnOp, fnOutput>>
routeVars == <<request, pc, authScheme, log, parseResult, createResult, uploadResult, result>>
extractVars == <<req, extractPc, extractLog, text, parsedRecipe, extractResult>>
pageVars == <<isLoading, recipe, lastInputRef, calls, inFlight, shownFrom, settled>>
vars == <<fnInput, fnOp, fnOutput, request, pc, authScheme, log, parseResult, createResult,
          uploadResult, result, req, extractPc, extractLog, text, parsedRecipe,
          extractResult, isLoading, recipe, lastInputRef, calls, inFlight, shownFrom,
          settled>>

\* ------------------------------------------------------------------ bounds

MaxLen == 4
MaxSteps == 2
MaxIngredients == 2
MaxDuration == 5
MaxServings == 6
MaxProse == 2
MaxCalls == 2

\* ---------------------------------------------------------- optional values

None == <<>>
Some(v) == <<v>>
IsSome(m) == Len(m) = 1
IsNone(m) == Len(m) = 0
Get(m) == m[1]

\* Sequences over S of length 0..n.
SeqUpTo(S, n) == UNION {[1..k -> S] : k \in 0..n}

\* ------------------------------------------------------------------ strings

NL == "\n"
Chars == {"a", "b", " ", NL}
Whitespace == {" ", NL, "\t", "\r"}
Strings == SeqUpTo(Chars, MaxLen)

\* String.prototype.includes('\n')
IncludesNL(s) == \E i \in 1..Len(s) : s[i] = NL

\* String.prototype.split('\n'): the pieces between the newlines, empty pieces kept.
RECURSIVE SplitNL(_)
SplitNL(s) ==
    IF ~IncludesNL(s) THEN <<s>>
    ELSE LET i == CHOOSE k \in 1..Len(s) : s[k] = NL /\ \A j \in 1..(k - 1) : s[j] # NL
         IN <<SubSeq(s, 1, i - 1)>> \o SplitNL(SubSeq(s, i + 1, Len(s)))

RECURSIVE TrimStart(_)
TrimStart(s) == IF s # <<>> /\ Head(s) \in Whitespace THEN TrimStart(Tail(s)) ELSE s

RECURSIVE TrimEnd(_)
TrimEnd(s) ==
    IF s # <<>> /\ s[Len(s)] \in Whitespace THEN TrimEnd(SubSeq(s, 1, Len(s) - 1)) ELSE s

\* String.prototype.trim()
Trim(s) == TrimEnd(TrimStart(s))

\* Array.prototype.filter((l) => l.length > 0)
RECURSIVE FilterNonEmpty(_)
FilterNonEmpty(seq) ==
    IF seq = <<>> THEN <<>>
    ELSE (IF Len(Head(seq)) > 0 THEN <<Head(seq)>> ELSE <<>>) \o FilterNonEmpty(Tail(seq))

\* JavaScript truthiness of an optional string: undefined, null and "" are falsy.
TruthyStr(m) == IsSome(m) /\ Get(m) # <<>>


\* ------------------------------------------------------- refineTandoorSteps

\* A step of the parsed recipe: T extends { instruction?, ingredients?,
\* show_ingredients_table? }; name stands for the fields the spread copies.
ParsedStep(instruction, ingredients, flag, name) ==
    [instruction |-> instruction, ingredients |-> ingredients,
     show_ingredients_table |-> flag, name |-> name]

\* singleStep.instruction.split('\n').map(trim).filter(non-empty)
StepLinesUntrimmed(instruction) == FilterNonEmpty(SplitNL(instruction))
StepLines(instruction) ==
    LET pieces == SplitNL(instruction)
    IN FilterNonEmpty([i \in 1..Len(pieces) |-> Trim(pieces[i])])

\* singleStep.show_ingredients_table ?? true
FlagOrTrue(flag) == IF IsSome(flag) THEN flag ELSE Some(TRUE)

\* The guard of the split's last early return: lines.length <= 1.
TooFewLinesOffByOne(lines) == Len(lines) < 1
TooFewLines(lines) == Len(lines) <= 1

\* The step made of one line; index is 0-based as in the source.
SplitStep(singleStep, line, index) ==
    [singleStep EXCEPT
        !.instruction = Some(line),
        !.ingredients = IF index = 0 THEN singleStep.ingredients ELSE Some(<<>>),
        !.show_ingredients_table =
            IF index = 0 THEN FlagOrTrue(singleStep.show_ingredients_table) ELSE Some(FALSE)]

\* steps is optional: None stands for undefined or null.
refineTandoorSteps(steps) ==
    IF IsNone(steps) \/ Len(Get(steps)) # 1 THEN steps
    ELSE LET singleStep == Get(steps)[1]
         IN IF ~TruthyStr(singleStep.instruction) \/ ~IncludesNL(Get(singleStep.instruction))
            THEN steps
            ELSE LET lines == StepLines(Get(singleStep.instruction))
                 IN IF TooFewLines(lines) THEN steps
                    ELSE Some([i \in 1..Len(lines) |-> SplitStep(singleStep, lines[i], i - 1)])

\* ------------------------------------------------------------------ mapSteps

\* JSON.stringify(step) of { instruction?, text? }: undefined members are left out.
JsonMember(key, m) == IF IsSome(m) THEN <<key, "\"">> \o Get(m) \o <<"\"">> ELSE <<>>
JsonStringify(step) ==
    LET a == JsonMember("\"instruction\":", step.instruction)
        b == JsonMember("\"text\":", step.text)
    IN <<"{">> \o a \o (IF a # <<>> /\ b # <<>> THEN <<",">> ELSE <<>>) \o b \o <<"}">>

\* step.instruction || step.text || JSON.stringify(step)
StepInstruction(step) ==
    IF TruthyStr(step.instruction) THEN Get(step.instruction)
    ELSE IF TruthyStr(step.text) THEN Get(step.text)
    ELSE JsonStringify(step)

\* index === 0 ? ingredients : []   (index is 0-based)
StepIngredientsOnEveryStep(index, ingredients) == ingredients
StepIngredients(index, ingredients) == IF index = 0 THEN ingredients ELSE <<>>

\* steps is optional: None stands for a value that is not an array.
mapStepsDummyWithoutIngredients(steps, ingredients) ==
    IF IsNone(steps) \/ Len(Get(steps)) = 0
    THEN << [instruction |-> <<"Prepare ingredients">>, ingredients |-> ingredients] >>
    ELSE [i \in 1..Len(Get(steps)) |->
            [instruction |-> StepInstruction(Get(steps)[i]),
             ingredients |-> StepIngredients(i - 1, ingredients)]]
mapSteps(steps, ingredients) ==
    IF IsNone(steps) \/ Len(Get(steps)) = 0
    THEN IF Len(ingredients) > 0
         THEN << [instruction |-> <<"Prepare ingredients">>, ingredients |-> ingredients] >>
         ELSE <<>>
    ELSE [i \in 1..Len(Get(steps)) |->
            [instruction |-> StepInstruction(Get(steps)[i]),
             ingredients |-> StepIngredients(i - 1, ingredients)]]


\* --------------------------------------------- parseDuration, parseServings

Digits == {"0", "1", "2", "3", "4", "5", "6", "7", "8", "9"}
DigitValue(c) == CHOOSE n \in 0..9 : ToString(n) = c

\* parseInt(digits, 10) of a run of decimal digits
RECURSIVE ParseInt(_)
ParseInt(ds) == IF ds = <<>> THEN 0 ELSE 10 * ParseInt(SubSeq(ds, 1, Len(ds) - 1)) + DigitValue(ds[Len(ds)])

\* The longest run of digits of s that starts at position i (greedy \d+).
RECURSIVE DigitRun(_, _)
DigitRun(s, i) == IF i <= Len(s) /\ s[i] \in Digits THEN <<s[i]>> \o DigitRun(s, i + 1) ELSE <<>>

\* (?:(\d+)X)? at position i: the digits captured and the position after the
\* group; nothing is captured when no digit run followed by X starts at i.
OptionalGroupAnyUnit(s, i, X) ==
    LET run == DigitRun(s, i)
        after == i + Len(run)
    IN IF Len(run) > 0 /\ after <= Len(s)
       THEN [digits |-> run, next |-> after + 1]
       ELSE [digits |-> <<>>, next |-> i]
OptionalGroup(s, i, X) ==
    LET run == DigitRun(s, i)
        after == i + Len(run)
    IN IF Len(run) > 0 /\ after <= Len(s) /\ s[after] = X
       THEN [digits |-> run, next |-> after + 1]
       ELSE [digits |-> <<>>, next |-> i]

\* isoDuration.match(/PT(?:(\d+)H)?(?:(\d+)M)?/): the match starts at the first "PT".
parseDuration(isoDuration) ==
    IF ~TruthyStr(isoDuration) THEN 0
    ELSE LET s == Get(isoDuration)
             starts == {i \in 1..(Len(s) - 1) : s[i] = "P" /\ s[i + 1] = "T"}
         IN IF starts = {} THEN 0
            ELSE LET i == CHOOSE k \in starts : \A j \in starts : k <= j
                     h == OptionalGroup(s, i + 2, "H")
                     m == OptionalGroup(s, h.next, "M")
                 IN (ParseInt(h.digits) * 60) + ParseInt(m.digits)

\* recipeYield is a number, a string or absent: [isNumber, number, text].
\* yieldValue.match(/(\d+)/): the first run of digits.
parseServings(yieldValue) ==
    IF IsNone(yieldValue) THEN [amount |-> 1, text |-> <<>>]
    ELSE LET y == Get(yieldValue)
         IN IF y.isNumber
            THEN (IF y.number = 0 THEN [amount |-> 1, text |-> <<>>]
                  ELSE [amount |-> y.number, text |-> <<>>])
            ELSE IF y.text = <<>> THEN [amount |-> 1, text |-> <<>>]
            ELSE LET starts == {i \in 1..Len(y.text) : y.text[i] \in Digits}
                 IN [amount |-> IF starts = {} THEN 1
                                ELSE ParseInt(DigitRun(y.text,
                                        CHOOSE k \in starts : \A j \in starts : k <= j)),
                     text |-> Trim(y.text)]

\* ------------------------------------------------------------ mapIngredients

\* An ingredient of a RecipePayload is a string or { food, unit?, quantity? };
\* the payloads of this model carry numeric quantities (or none), for which
\* parseFloat(String(quantity)) || 0 is the quantity itself (0 when absent).
MapIngredient(ing) ==
    IF ing.isString
    THEN [food |-> [name |-> ing.food], unit |-> None, amount |-> 0, note |-> ""]
    ELSE [food |-> [name |-> ing.food],
          unit |-> IF IsSome(ing.unit) /\ Get(ing.unit) # "" THEN Some([name |-> Get(ing.unit)])
                   ELSE None,
          amount |-> IF IsSome(ing.quantity) THEN Get(ing.quantity) ELSE 0,
          note |-> ""]

\* ingredients is optional: None stands for a value that is not an array.
mapIngredients(ingredients) ==
    IF IsNone(ingredients) THEN <<>>
    ELSE [i \in 1..Len(Get(ingredients)) |-> MapIngredient(Get(ingredients)[i])]

DEFAULT_RECIPE_DESCRIPTION == "Imported via VibeRecipe"

buildTandoorPayload(data) ==
    LET mappedIngredients == mapIngredients(data.ingredients)
        mappedSteps == mapSteps(data.steps, mappedIngredients)
        servings == parseServings(data.recipeYield)
    IN [name |-> data.name,
        description |-> IF IsSome(data.description) /\ Get(data.description) # ""
                        THEN Get(data.description) ELSE DEFAULT_RECIPE_DESCRIPTION,
        steps |-> mappedSteps,
        source_url |-> data.url,
        working_time |-> parseDuration(data.prepTime),
        waiting_time |-> parseDuration(data.cookTime),
        servings |-> servings.amount,
        servings_text |-> servings.text,
        internal |-> TRUE]

\* -------------------------------------------------------------- the service

TOKEN == "Token"
BEARER == "Bearer"

\* The statuses the recipe manager answers with; response.ok is 200..299.
Statuses == {200, 201, 400, 401, 403, 500}
Ok(status) == status >= 200 /\ status <= 299
ErrorTexts == {"detail-a", "detail-b"}

\* A step of the recipe manager's own parser.
GiantStep == ParsedStep(Some(<<"a", NL, "b">>), Some(<<"i1">>), None, "s")
PlainStep == ParsedStep(Some(<<"a">>), Some(<<"i1">>), Some(FALSE), "s")

\* recipe_json of the parse answer: TandoorParsedRecipe.
ParsedRecipes ==
    [name : {"Pasta"},
     image : {None, Some(""), Some("https://img.example/p.jpg")},
     steps : {None, Some(<<GiantStep>>), Some(<<PlainStep, PlainStep>>)}]

\* The body of an ok answer as response.json() reads it: not JSON at all
\* (json() rejects), the JSON null, or an object.
InvalidJson == [valid |-> FALSE, data |-> None]
ParseBodies ==
    {InvalidJson, [valid |-> TRUE, data |-> None]}
        \cup {[valid |-> TRUE, data |-> Some([recipe_json |-> rj])] :
                rj \in {None} \cup {Some(r) : r \in ParsedRecipes}}
CreateBodies ==
    {InvalidJson, [valid |-> TRUE, data |-> None]}
        \cup {[valid |-> TRUE, data |-> Some([id |-> id, name |-> "Pasta"])] :
                id \in {None, Some(0), Some(7)}}

\* What one fetch() ends in: a rejection (network error), or a response.
Thrown == [threw |-> TRUE, status |-> 0, body |-> InvalidJson, text |-> ""]
Replies(bodies) ==
    {Thrown}
        \cup {[threw |-> FALSE, status |-> st, body |-> b, text |-> ""] :
                st \in {x \in Statuses : Ok(x)}, b \in bodies}
        \cup {[threw |-> FALSE, status |-> st, body |-> InvalidJson, text |-> t] :
                st \in {x \in Statuses : ~Ok(x)}, t \in ErrorTexts}

\* ------------------------------------------------------------- TandoorClient

\* new URL(path, this.baseUrl) for a path that starts with "/": the base's own
\* path is replaced.
buildUrl(baseUrl, path) == [origin |-> baseUrl.origin, path |-> path]

\* getAuthHeader: `${this.authScheme} ${this.token}`
getAuthHeaderWithInitialScheme(scheme) == TOKEN
getAuthHeader(scheme) == scheme

\* fetchWithAuthFallback: the scheme of the first request ("Try Token first").
FirstSchemeAssumed(assumed) == assumed
FirstScheme(assumed) == TOKEN

\* fetchWithAuthFallback: response.status === 401 || response.status === 403
AuthRejectedOnly401(status) == status = 401
AuthRejected(status) == status = 401 \/ status = 403

\* One request as the log keeps it: status is None when fetch() rejected.
Request(op, method, target, scheme, body, reply) ==
    [op |-> op, method |-> method, target |-> target, scheme |-> scheme,
     token |-> IF scheme = "" THEN "" ELSE Get(request).token, body |-> body,
     status |-> IF reply.threw THEN None ELSE Some(reply.status)]

\* parseRecipeFromUrl, from the final response on.
ParseRecipeResult(reply) ==
    IF Ok(reply.status)
    THEN [data |-> reply.body.data, error |-> None, status |-> reply.status]
    ELSE [data |-> None, error |-> Some(reply.text), status |-> reply.status]

\* createRecipe, from the final response on.
CreateRecipeResult(reply) ==
    IF Ok(reply.status) \/ reply.status = 201
    THEN [data |-> reply.body.data, error |-> None, status |-> reply.status]
    ELSE [data |-> None, error |-> Some(reply.text), status |-> reply.status]

\* uploadImageFromUrl: uploadResponse.ok
UploadAcceptedUnlessServerError(status) == status < 500
UploadAccepted(status) == Ok(status)

\* ----------------------------------------------------------------- the routes

\* NextResponse.json(body, { status }); the members a body does not have are None.
createErrorResponse(message, status, details) ==
    [status |-> status, error |-> Some(message), details |-> details,
     parsed |-> None, created |-> None]

CreatedResponse(created) ==
    [status |-> 201, error |-> None, details |-> None, parsed |-> None,
     created |-> Some(created)]

AI_EXTRACTION_HINT ==
    "The Tandoor server returned an internal error (500). This often means its internal scraper couldn't parse the website. Please try unchecking 'Use Tandoor Importer' to use VibeRecipe's AI extraction instead."

\* import/route.ts: !parseResult.data?.recipe_json
HasRecipeJson(pr) == IsSome(pr.data) /\ IsSome(Get(pr.data).recipe_json)

\* import/route.ts: the answer when the parse gave no recipe_json.
ParseFailureResponseGenericFirst(pr) ==
    IF IsNone(pr.data) THEN createErrorResponse("Tandoor Import Failed", pr.status, pr.error)
    ELSE IF pr.status = 500
    THEN createErrorResponse("Tandoor failed to import this URL directly.", 502,
                             Some(AI_EXTRACTION_HINT))
    ELSE createErrorResponse("No recipe data found in Tandoor response", 422, None)
ParseFailureResponse(pr) ==
    IF pr.status = 500
    THEN createErrorResponse("Tandoor failed to import this URL directly.", 502,
                             Some(AI_EXTRACTION_HINT))
    ELSE IF IsNone(pr.data)
    THEN createErrorResponse("Tandoor Import Failed", pr.status, pr.error)
    ELSE createErrorResponse("No recipe data found in Tandoor response", 422, None)

\* import/route.ts: recipeJson.steps = refineTandoorSteps(recipeJson.steps), on
\* the object parseResult.data holds.
RefinedData(data) ==
    LET rj == Get(data.recipe_json)
    IN [data EXCEPT !.recipe_json =
            Some([rj EXCEPT !.steps = IF IsSome(rj.steps) THEN refineTandoorSteps(rj.steps)
                                      ELSE rj.steps])]

\* The answer when createRecipe returned no data.
CreateFailureResponseWithoutParsed(route, pr, cr) ==
    createErrorResponse(IF route = "import" THEN "Import parsed but failed to save."
                        ELSE "Tandoor API Error", cr.status, cr.error)
CreateFailureResponse(route, pr, cr) ==
    IF route = "import"
    THEN [status |-> cr.status, error |-> Some("Import parsed but failed to save."),
          details |-> cr.error, parsed |-> Get(pr).data, created |-> None]
    ELSE createErrorResponse("Tandoor API Error", cr.status, cr.error)

\* The catch of the route.
CatchResponse(route) ==
    createErrorResponse(IF route = "import" THEN "Failed to connect to Tandoor"
                        ELSE "Failed to send to Tandoor", 500, None)

\* image && id: both truthy.
ShouldUploadWithoutId(image, id) == IsSome(image) /\ Get(image) # ""
ShouldUpload(image, id) ==
    /\ IsSome(image) /\ Get(image) # ""
    /\ IsSome(id) /\ Get(id) # 0

\* The answer of the route once uploadImageFromUrl has returned.
AfterUploadResponsePropagating(created, upload) ==
    IF upload.success THEN CreatedResponse(created)
    ELSE createErrorResponse("Image upload failed", 500, upload.error)
AfterUploadResponse(created, upload) == CreatedResponse(created)

\* ------------------------------------------------ JSON values and JSON texts

\* A JSON value is a record: t is its JavaScript kind, num the value of a
\* number, str the characters of a string, items the elements of an array or
\* the members of an object in the order of the text; a member is the value
\* with its name in k (k is empty elsewhere). undefined is None.
JNull == [t |-> "null", k |-> <<>>, num |-> 0, str |-> <<>>, items |-> <<>>]
JNum(n) == [JNull EXCEPT !.t = "number", !.num = n]
JStr(cs) == [JNull EXCEPT !.t = "string", !.str = cs]
JArr(vs) == [JNull EXCEPT !.t = "array", !.items = vs]
JObj(ms) == [JNull EXCEPT !.t = "object", !.items = ms]
Member(k, v) == [v EXCEPT !.k = k]

Quote == "\""

\* JSON.stringify(value), without indentation; the numbers of this model have
\* one digit and its strings need no escape.
RECURSIVE JSONstringify(_)
RECURSIVE StringifyList(_, _)
StringifyList(items, isObject) ==
    IF items = <<>> THEN <<>>
    ELSE (IF isObject
          THEN <<Quote>> \o Head(items).k \o <<Quote, ":">> \o JSONstringify(Head(items))
          ELSE JSONstringify(Head(items)))
         \o (IF Len(items) > 1 THEN <<",">> ELSE <<>>)
         \o StringifyList(Tail(items), isObject)
JSONstringify(value) ==
    CASE value.t = "null" -> <<"n", "u", "l", "l">>
      [] value.t = "number" -> <<ToString(value.num)>>
      [] value.t = "string" -> <<Quote>> \o value.str \o <<Quote>>
      [] value.t = "array" -> <<"[">> \o StringifyList(value.items, FALSE) \o <<"]">>
      [] value.t = "object" -> <<"{">> \o StringifyList(value.items, TRUE) \o <<"}">>

\* JSON.parse(text) by recursive descent: objects, arrays, strings without
\* escapes, unsigned integers and null, with white space between the tokens.
\* A parse step answers [ok, value, next]: next is the position after the value.
RECURSIVE SkipWs(_, _)
SkipWs(s, i) == IF i <= Len(s) /\ s[i] \in Whitespace THEN SkipWs(s, i + 1) ELSE i

SyntaxError == [ok |-> FALSE, value |-> JNull, next |-> 0]
Parsed(value, next) == [ok |-> TRUE, value |-> value, next |-> next]

ParseString(s, i) ==
    LET closing == {j \in (i + 1)..Len(s) : s[j] = Quote}
    IN IF i > Len(s) \/ s[i] # Quote \/ closing = {} THEN SyntaxError
       ELSE LET j == CHOOSE c \in closing : \A d \in closing : c <= d
            IN Parsed(JStr(SubSeq(s, i + 1, j - 1)), j + 1)

RECURSIVE ParseValue(_, _)
RECURSIVE ParseList(_, _, _, _)
\* the members of an object (isObject) or the elements of an array, from
\* position i, up to and including the closing bracket
ParseList(s, i, acc, isObject) ==
    LET key == IF isObject THEN ParseString(s, SkipWs(s, i)) ELSE Parsed(JNull, i)
        colon == SkipWs(s, key.next)
    IN IF ~key.ok \/ (isObject /\ (colon > Len(s) \/ s[colon] # ":")) THEN SyntaxError
       ELSE LET val == ParseValue(s, IF isObject THEN colon + 1 ELSE i)
                e == SkipWs(s, val.next)
                items == Append(acc, IF isObject THEN Member(key.value.str, val.value)
                                     ELSE val.value)
            IN IF ~val.ok \/ e > Len(s) THEN SyntaxError
               ELSE IF s[e] = (IF isObject THEN "}" ELSE "]")
               THEN Parsed(IF isObject THEN JObj(items) ELSE JArr(items), e + 1)
               ELSE IF s[e] = "," THEN ParseList(s, e + 1, items, isObject)
               ELSE SyntaxError
ParseValue(s, from) ==
    LET i == SkipWs(s, from)
        j == SkipWs(s, i + 1)
    IN IF i > Len(s) THEN SyntaxError
       ELSE IF s[i] = "{"
       THEN (IF j <= Len(s) /\ s[j] = "}" THEN Parsed(JObj(<<>>), j + 1)
             ELSE ParseList(s, j, <<>>, TRUE))
       ELSE IF s[i] = "["
       THEN (IF j <= Len(s) /\ s[j] = "]" THEN Parsed(JArr(<<>>), j + 1)
             ELSE ParseList(s, j, <<>>, FALSE))
       ELSE IF s[i] = Quote THEN ParseString(s, i)
       ELSE IF s[i] \in Digits
       THEN (LET run == DigitRun(s, i)
             IN IF Len(run) > 1 /\ Head(run) = "0" THEN SyntaxError
                ELSE Parsed(JNum(ParseInt(run)), i + Len(run)))
       ELSE IF i + 3 <= Len(s) /\ SubSeq(s, i, i + 3) = <<"n", "u", "l", "l">>
       THEN Parsed(JNull, i + 4)
       ELSE SyntaxError

\* JSON.parse(text): the value, or None when it throws a SyntaxError
JSONparse(s) ==
    LET r == ParseValue(s, 1)
    IN IF r.ok /\ SkipWs(s, r.next) = Len(s) + 1 THEN Some(r.value) ELSE None

\* ---------------------------------------------------------- cleanJsonResponse

\* text.replace(pattern, '') with the g flag: every occurrence, from left to right
RECURSIVE RemoveAll(_, _)
RemoveAll(s, pattern) ==
    IF Len(s) < Len(pattern) THEN s
    ELSE IF SubSeq(s, 1, Len(pattern)) = pattern
    THEN RemoveAll(SubSeq(s, Len(pattern) + 1, Len(s)), pattern)
    ELSE <<Head(s)>> \o RemoveAll(Tail(s), pattern)

\* The code-fence character U+0060 cannot be written in a TLA+ string: it is
\* written "~" here, a character that occurs nowhere else in the texts.
FENCE == <<"~", "~", "~">>
FENCE_JSON == FENCE \o <<"j", "s", "o", "n">>

\* the third replace (everything up to the first opening brace becomes that
\* brace): the text from its first opening brace, if it has one
FromFirstOpenKeepingPrefix(s) == s
FromFirstOpen(s) ==
    LET opens == {i \in 1..Len(s) : s[i] = "{"}
    IN IF opens = {} THEN s
       ELSE SubSeq(s, CHOOSE i \in opens : \A j \in opens : i <= j, Len(s))
\* the fourth replace (the last closing brace and what follows it becomes
\* that brace): the text up to its last closing brace, if it has one
ToLastClose(s) ==
    LET closes == {i \in 1..Len(s) : s[i] = "}"}
    IN IF closes = {} THEN s
       ELSE SubSeq(s, 1, CHOOSE i \in closes : \A j \in closes : j <= i)

cleanJsonResponse(rawText) ==
    Trim(ToLastClose(FromFirstOpen(RemoveAll(RemoveAll(rawText, FENCE_JSON), FENCE))))

\* ---------------------------------------------- JavaScript on a parsed value

\* the truthiness of a value, undefined (None) included
Truthy(m) ==
    /\ IsSome(m)
    /\ CASE Get(m).t = "null" -> FALSE
         [] Get(m).t = "number" -> Get(m).num # 0
         [] Get(m).t = "string" -> Get(m).str # <<>>
         [] OTHER -> TRUE

\* value[key] of a value that is not null: the member of an object (the last
\* one of that name), undefined for every other kind
GetProp(value, key) ==
    LET at == IF value.t = "object"
              THEN {i \in 1..Len(value.items) : value.items[i].k = key} ELSE {}
    IN IF at = {} THEN None
       ELSE Some(Member(<<>>, value.items[CHOOSE i \in at : \A j \in at : j <= i]))

\* value[key] = x on an object: the member is replaced where it stands, or
\* appended. On an array the assignment succeeds, but JSON.stringify of an
\* array writes its elements only, so the array is left as it is.
SetProp(value, key, x) ==
    IF value.t # "object" THEN value
    ELSE IF \E i \in 1..Len(value.items) : value.items[i].k = key
    THEN JObj([i \in 1..Len(value.items) |->
                  IF value.items[i].k = key THEN Member(key, x) ELSE value.items[i]])
    ELSE JObj(Append(value.items, Member(key, x)))

\* In a module (strict mode) reading a property of null throws a TypeError,
\* and so does creating a property on null, a number or a string.
ReadThrows(value) == value.t = "null"
WriteThrows(value) == value.t \notin {"object", "array"}

\* ------------------------------------------ the adapters as pure functions

\* The steps refineTandoorSteps is given: every single-step list over Strings,
\* and the lists of other lengths over a few steps.
IngredientIds == {"i1", "i2"}
SingleSteps ==
    {ParsedStep(ins, ing, fl, "s") :
        ins \in {None} \cup {Some(s) : s \in Strings},
        ing \in {None, Some(<<>>), Some(<<"i1", "i2">>)},
        fl \in {None, Some(TRUE), Some(FALSE)}}
FewSteps ==
    {ParsedStep(ins, ing, fl, nm) :
        ins \in {None, Some(<<"a">>), Some(<<"a", NL, "b">>)},
        ing \in {None, Some(<<"i1">>)},
        fl \in {None, Some(FALSE)},
        nm \in {"s"}}
RefineInputs ==
    {None} \cup {Some(<<st>>) : st \in SingleSteps}
           \cup {Some(l) : l \in {x \in SeqUpTo(FewSteps, MaxSteps) : Len(x) # 1}}

\* The steps of a RecipePayload: Array<{ instruction?, text? }>.
SourceSteps ==
    [instruction : {None, Some(<<>>), Some(<<"a">>)}, text : {None, Some(<<>>), Some(<<"b">>)}]
MapStepsInputs ==
    [steps : {None} \cup {Some(l) : l \in SeqUpTo(SourceSteps, MaxSteps)},
     ingredients : SeqUpTo(IngredientIds, MaxIngredients)]

\* The names and strings of the recipes of this model.
NAME == <<"n", "a", "m", "e">>
URL == <<"u", "r", "l">>
IMAGE == <<"i", "m", "a", "g", "e">>
PIE == <<"P", "i", "e">>
HTTP_IMAGE == <<"h", "t", "t", "p", ":", "i">>
HTTP_PAGE == <<"h", "t", "t", "p", ":", "p">>

\* cleanJsonResponse and JSON.parse are given one clean JSON object, as it is
\* and wrapped: prose, an opening fence, the object, a closing fence, prose.
\* The prose before the object holds no opening brace and the prose after it
\* no closing brace.
CleanObjects ==
    {JObj(<<>>),
     JObj(<<Member(NAME, JStr(PIE))>>),
     JObj(<<Member(NAME, JStr(<<"}", " ", "{">>)),
            Member(IMAGE, JObj(<<Member(URL, JStr(HTTP_IMAGE))>>))>>),
     JObj(<<Member(IMAGE, JArr(<<JStr(HTTP_IMAGE), JNull, JObj(<<>>)>>)),
            Member(URL, JNum(5))>>),
     JObj(<<Member(NAME, JStr(<<"a">> \o FENCE))>>)}
ProseBefore == SeqUpTo({"a", " ", "}", "~"}, MaxProse)
ProseAfter == SeqUpTo({"a", " ", "{", "~"}, MaxProse)
Wrapped(json, before, opening, after) ==
    before \o opening \o <<NL>> \o json \o <<NL>> \o FENCE \o after
NormalizeInputs ==
    [doc : CleanObjects, before : ProseBefore, opening : {FENCE, FENCE_JSON},
     after : ProseAfter]

\* The durations parseDuration is given: absent, every string over DurationChars
\* up to MaxDuration characters, and some longer ones.
DurationChars == {"P", "T", "H", "M", "1", "x"}
DurationExamples ==
    {<<"P", "T", "1", "H", "3", "0", "M">>, <<"P", "T", "4", "5", "M">>,
     <<"g", "a", "r", "b", "a", "g", "e">>, <<"P", "T", "1", "H", "3", "0", "M", "1", "5", "S">>,
     <<"x", "P", "T", "1", "H", "1", "M">>, <<"P", "1", "D", "T", "2", "H">>}
DurationInputs ==
    {None} \cup {Some(d) : d \in SeqUpTo(DurationChars, MaxDuration) \cup DurationExamples}

\* The yields parseServings is given: absent, a number, or a string over
\* ServingsChars up to MaxLen characters.
ServingsChars == {"4", "2", " ", "s"}
ServingsInputs ==
    {None}
      \cup {Some([isNumber |-> TRUE, number |-> n, text |-> <<>>]) : n \in (-1)..MaxServings}
      \cup {Some([isNumber |-> FALSE, number |-> 0, text |-> t]) :
                t \in SeqUpTo(ServingsChars, MaxLen)}

RouteIdle ==
    /\ request = None /\ pc = "idle" /\ authScheme = "Token" /\ log = <<>>
    /\ parseResult = None /\ createResult = None /\ uploadResult = None /\ result = None

ExtractIdle ==
    /\ req = None /\ extractPc = "idle" /\ extractLog = <<>>
    /\ text = None /\ parsedRecipe = None /\ extractResult = None

PageIdle ==
    /\ isLoading = FALSE /\ recipe = None /\ lastInputRef = None
    /\ calls = <<>> /\ inFlight = {} /\ shownFrom = 0 /\ settled = {}

InitAdapter ==
    /\ fnOp = "none"
    /\ fnOutput = None
    /\ \/ \E x \in RefineInputs : fnInput = [fn |-> "refineTandoorSteps", steps |-> x]
       \/ \E x \in MapStepsInputs : fnInput = [fn |-> "mapSteps", args |-> x]
       \/ \E x \in DurationInputs : fnInput = [fn |-> "parseDuration", isoDuration |-> x]
       \/ \E x \in ServingsInputs : fnInput = [fn |-> "parseServings", yieldValue |-> x]
       \/ \E x \in NormalizeInputs : fnInput = [fn |-> "cleanJsonResponse", args |-> x]
    /\ RouteIdle
    /\ ExtractIdle
    /\ PageIdle

CallRefineTandoorSteps ==
    /\ fnOp = "none"
    /\ fnInput.fn = "refineTandoorSteps"
    /\ fnOp' = "refineTandoorSteps"
    /\ fnOutput' = refineTandoorSteps(fnInput.steps)
    /\ UNCHANGED <<fnInput, routeVars, extractVars, pageVars>>

CallMapSteps ==
    /\ fnOp = "none"
    /\ fnInput.fn = "mapSteps"
    /\ fnOp' = "mapSteps"
    /\ fnOutput' = mapSteps(fnInput.args.steps, fnInput.args.ingredients)
    /\ UNCHANGED <<fnInput, routeVars, extractVars, pageVars>>

CallParseDuration ==
    /\ fnOp = "none"
    /\ fnInput.fn = "parseDuration"
    /\ fnOp' = "parseDuration"
    /\ fnOutput' = parseDuration(fnInput.isoDuration)
    /\ UNCHANGED <<fnInput, routeVars, extractVars, pageVars>>

CallParseServings ==
    /\ fnOp = "none"
    /\ fnInput.fn = "parseServings"
    /\ fnOp' = "parseServings"
    /\ fnOutput' = parseServings(fnInput.yieldValue)
    /\ UNCHANGED <<fnInput, routeVars, extractVars, pageVars>>

\* JSON.parse(cleanJsonResponse(text)) of the clean object and of the wrapped one
CallCleanJsonResponse ==
    /\ fnOp = "none"
    /\ fnInput.fn = "cleanJsonResponse"
    /\ fnOp' = "cleanJsonResponse"
    /\ LET a == fnInput.args
           json == JSONstringify(a.doc)
       IN fnOutput' =
            [clean |-> JSONparse(cleanJsonResponse(json)),
             wrapped |-> JSONparse(cleanJsonResponse(
                             Wrapped(json, a.before, a.opening, a.after)))]
    /\ UNCHANGED <<fnInput, routeVars, extractVars, pageVars>>

NextAdapter ==
    \/ CallRefineTandoorSteps
    \/ CallMapSteps
    \/ CallParseDuration
    \/ CallParseServings
    \/ CallCleanJsonResponse

SpecAdapter == InitAdapter /\ [][NextAdapter]_vars


\* ------------------------------------------------------------- C9 and C10

\* What an adapted step's instruction may be taken from, for a source step.
InstructionSources(step) ==
    (IF IsSome(step.instruction) THEN {Get(step.instruction)} ELSE {})
        \cup (IF IsSome(step.text) THEN {Get(step.text)} ELSE {})
        \cup {JsonStringify(step)}

\* C9: for a non-empty step sequence and any ingredient list, mapSteps returns
\* one step per input step in the same order, the first output step carries the
\* whole ingredient list and every other output step carries an empty one.
C9_FirstStepCarriesIngredients ==
    (fnOp = "mapSteps" /\ IsSome(fnInput.args.steps) /\ Len(Get(fnInput.args.steps)) > 0) =>
        LET steps == Get(fnInput.args.steps)
            ingredients == fnInput.args.ingredients
        IN /\ Len(fnOutput) = Len(steps)
           /\ \A i \in 1..Len(steps) : fnOutput[i].instruction \in InstructionSources(steps[i])
           /\ fnOutput[1].ingredients = ingredients
           /\ \A i \in 2..Len(steps) : fnOutput[i].ingredients = <<>>

C9_Witness ==
    /\ fnOp = "mapSteps"
    /\ IsSome(fnInput.args.steps)
    /\ Len(Get(fnInput.args.steps)) = 2
    /\ fnInput.args.ingredients = <<"i2", "i1">>
    /\ Len(fnOutput) = 2
    /\ fnOutput[1].ingredients = <<"i2", "i1">>
    /\ fnOutput[2].ingredients = <<>>
    /\ fnOutput[1].instruction # fnOutput[2].instruction

\* The non-empty trimmed lines of s, stated on the positions of s: a line lies
\* between two consecutive breaks (a newline, or an end of s) and is kept, from
\* its first to its last non-whitespace character, when it has one.
Breaks(s) == {0, Len(s) + 1} \cup {i \in 1..Len(s) : s[i] = NL}
Inked(s, b1, b2) == {k \in (b1 + 1)..(b2 - 1) : s[k] \notin Whitespace}
Least(K) == CHOOSE k \in K : \A j \in K : k <= j
Greatest(K) == CHOOSE k \in K : \A j \in K : j <= k
KeptLines(s) ==
    {<<Least(Inked(s, b1, b2)), Greatest(Inked(s, b1, b2))>> :
        <<b1, b2>> \in {bb \in Breaks(s) \X Breaks(s) :
                          /\ bb[1] < bb[2]
                          /\ \A b \in Breaks(s) : ~(bb[1] < b /\ b < bb[2])
                          /\ Inked(s, bb[1], bb[2]) # {}}}
NthKeptLine(s, n) ==
    LET p == CHOOSE q \in KeptLines(s) :
                Cardinality({r \in KeptLines(s) : r[1] < q[1]}) = n - 1
    IN SubSeq(s, p[1], p[2])

\* When refineTandoorSteps is to split: exactly one step, whose instruction
\* contains a newline, with more than one non-empty line.
MustSplit(steps) ==
    /\ IsSome(steps)
    /\ Len(Get(steps)) = 1
    /\ IsSome(Get(steps)[1].instruction)
    /\ IncludesNL(Get(Get(steps)[1].instruction))
    /\ Cardinality(KeptLines(Get(Get(steps)[1].instruction))) > 1

\* C10: refineTandoorSteps replaces the list by one step per non-empty trimmed
\* line, in line order, exactly when the list has one step whose instruction
\* contains a newline and has more than one non-empty line; the first new step
\* keeps the ingredients and the show_ingredients_table flag (true when absent),
\* the later ones have no ingredients and a false flag; in every other case the
\* list is returned unchanged.
C10_RefineSplitsExactlyWhen ==
    (fnOp = "refineTandoorSteps") =>
        IF MustSplit(fnInput.steps)
        THEN LET orig == Get(fnInput.steps)[1]
                 s == Get(orig.instruction)
                 out == Get(fnOutput)
             IN /\ IsSome(fnOutput)
                /\ Len(out) = Cardinality(KeptLines(s))
                /\ \A i \in 1..Len(out) : out[i].instruction = Some(NthKeptLine(s, i))
                /\ out[1].ingredients = orig.ingredients
                /\ out[1].show_ingredients_table =
                      (IF IsSome(orig.show_ingredients_table)
                       THEN orig.show_ingredients_table ELSE Some(TRUE))
                /\ \A i \in 2..Len(out) :
                      /\ out[i].ingredients = Some(<<>>)
                      /\ out[i].show_ingredients_table = Some(FALSE)
        ELSE fnOutput = fnInput.steps

C10_Witness ==
    /\ fnOp = "refineTandoorSteps"
    /\ IsSome(fnInput.steps)
    /\ Len(Get(fnInput.steps)) = 1
    /\ Get(fnInput.steps)[1].instruction = Some(<<" ", "b", NL, "a">>)
    /\ Get(fnInput.steps)[1].show_ingredients_table = None
    /\ Get(fnInput.steps)[1].ingredients = Some(<<"i1", "i2">>)
    /\ Len(Get(fnOutput)) = 2
    /\ Get(fnOutput)[1].instruction = Some(<<"b">>)
    /\ Get(fnOutput)[1].show_ingredients_table = Some(TRUE)
    /\ Get(fnOutput)[2].ingredients = Some(<<>>)


\* ------------------------------------------- one invocation of an export route

BaseUrls == {[origin |-> "https://tandoor.example", path |-> <<>>],
             [origin |-> "https://tandoor.example", path |-> <<"recipes">>]}

\* The RecipePayload bodies POST /api/tandoor is given.
PastaPayload ==
    [name |-> "Pasta", description |-> None,
     steps |-> Some(<< [instruction |-> None, text |-> Some(<<"b">>)],
                       [instruction |-> Some(<<"a">>), text |-> None] >>),
     ingredients |-> Some(<< [isString |-> TRUE, food |-> "pasta", unit |-> None,
                              quantity |-> None],
                             [isString |-> FALSE, food |-> "salt", unit |-> Some("g"),
                              quantity |-> Some(5)] >>),
     url |-> Some("https://example.test/recipe"),
     image |-> Some("https://img.example/p.jpg"),
     prepTime |-> Some(<<"P", "T", "1", "H", "3", "0", "M">>), cookTime |-> None,
     recipeYield |-> Some([isNumber |-> FALSE, number |-> 0, text |-> <<"4", " ", "p">>])]
BarePayload ==
    [name |-> "Toast", description |-> Some("dry"), steps |-> None,
     ingredients |-> Some(<< [isString |-> TRUE, food |-> "bread", unit |-> None,
                              quantity |-> None] >>),
     url |-> None, image |-> None, prepTime |-> None,
     cookTime |-> Some(<<"P", "T", "5", "M">>),
     recipeYield |-> Some([isNumber |-> TRUE, number |-> 2, text |-> <<>>])]
Payloads == {PastaPayload, BarePayload}

\* The request of a route: the x-tandoor-url and x-tandoor-token headers (both
\* present or not), whether the body is JSON at all, and the body: { url } for
\* the import route, a RecipePayload for /api/tandoor.
Requests ==
    {[route |-> "import", configured |-> c, baseUrl |-> b, token |-> "secret", jsonBody |-> j,
      url |-> u, payload |-> BarePayload] :
        c \in BOOLEAN, b \in BaseUrls, j \in BOOLEAN,
        u \in {None, Some(""), Some("https://example.test/recipe")}}
      \cup
    {[route |-> "tandoor", configured |-> c, baseUrl |-> b, token |-> "secret", jsonBody |-> j,
      url |-> None, payload |-> p] :
        c \in BOOLEAN, b \in BaseUrls, j \in BOOLEAN, p \in Payloads}

FnIdle == fnInput = None /\ fnOp = "none" /\ fnOutput = None

Init ==
    /\ FnIdle
    /\ ExtractIdle
    /\ PageIdle
    /\ \E r \in Requests : request = Some(r)
    /\ pc = "start"
    /\ authScheme = TOKEN
    /\ log = <<>>
    /\ parseResult = None
    /\ createResult = None
    /\ uploadResult = None
    /\ result = None

Req == Get(request)

\* return <response> from the handler
Respond(response) == result' = Some(response) /\ pc' = "done"

\* POST /api/tandoor/import, up to the first request of parseRecipeFromUrl.
ImportStart ==
    /\ pc = "start"
    /\ Req.route = "import"
    /\ IF ~Req.configured
       THEN Respond(createErrorResponse("Missing Tandoor configuration", 401, None))
       ELSE IF ~Req.jsonBody THEN Respond(CatchResponse("import"))
       ELSE IF ~(IsSome(Req.url) /\ Get(Req.url) # "")
       THEN Respond(createErrorResponse("Missing URL to import", 400, None))
       ELSE pc' = "parse_first" /\ UNCHANGED result
    /\ authScheme' = TOKEN
    /\ UNCHANGED <<request, log, parseResult, createResult, uploadResult, fnVars, extractVars, pageVars>>

\* POST /api/tandoor, up to the first request of createRecipe.
TandoorStart ==
    /\ pc = "start"
    /\ Req.route = "tandoor"
    /\ IF ~Req.configured
       THEN Respond(createErrorResponse("Missing Tandoor configuration", 401, None))
       ELSE IF ~Req.jsonBody THEN Respond(CatchResponse("tandoor"))
       ELSE pc' = "create_first" /\ UNCHANGED result
    /\ authScheme' = TOKEN
    /\ UNCHANGED <<request, log, parseResult, createResult, uploadResult, fnVars, extractVars, pageVars>>

ParseBody == [url |-> Get(Req.url), data |-> ""]
ParseTarget == buildUrl(Req.baseUrl, <<"api", "recipe-from-source", "">>)

\* The import route from the final response of parseRecipeFromUrl on.
ParseReturned(reply) ==
    IF Ok(reply.status) /\ ~reply.body.valid
    THEN Respond(CatchResponse("import")) /\ UNCHANGED parseResult
    ELSE LET pr == ParseRecipeResult(reply)
         IN IF ~HasRecipeJson(pr)
            THEN parseResult' = Some(pr) /\ Respond(ParseFailureResponse(pr))
            ELSE /\ parseResult' = Some([pr EXCEPT !.data = Some(RefinedData(Get(pr.data)))])
                 /\ pc' = "create_first"
                 /\ UNCHANGED result

\* fetchWithAuthFallback of parseRecipeFromUrl: the first request.
ParseFirst ==
    /\ pc = "parse_first"
    /\ \E reply \in Replies(ParseBodies) :
          LET scheme == FirstScheme(authScheme)
          IN /\ log' = Append(log, Request("parse", "POST", ParseTarget, scheme, ParseBody, reply))
             /\ IF reply.threw
                THEN Respond(CatchResponse("import")) /\ UNCHANGED <<authScheme, parseResult>>
                ELSE IF AuthRejected(reply.status)
                THEN /\ authScheme' = BEARER
                     /\ pc' = "parse_retry"
                     /\ UNCHANGED <<parseResult, result>>
                ELSE authScheme' = TOKEN /\ ParseReturned(reply)
    /\ UNCHANGED <<request, createResult, uploadResult, fnVars, extractVars, pageVars>>

\* fetchWithAuthFallback of parseRecipeFromUrl: the request under Bearer.
ParseRetry ==
    /\ pc = "parse_retry"
    /\ \E reply \in Replies(ParseBodies) :
          /\ log' = Append(log, Request("parse", "POST", ParseTarget, BEARER, ParseBody, reply))
          /\ IF reply.threw
             THEN Respond(CatchResponse("import")) /\ UNCHANGED parseResult
             ELSE ParseReturned(reply)
    /\ UNCHANGED <<request, authScheme, createResult, uploadResult, fnVars, extractVars, pageVars>>

\* What createRecipe is given, and the image the route uploads.
RecipeJson == Get(Get(Get(parseResult).data).recipe_json)
CreateBody == IF Req.route = "import" THEN RecipeJson ELSE buildTandoorPayload(Req.payload)
ImageUrl == IF Req.route = "import" THEN RecipeJson.image ELSE Req.payload.image
CreateTarget == buildUrl(Req.baseUrl, <<"api", "recipe", "">>)

\* Either route from the final response of createRecipe on.
CreateReturned(reply) ==
    IF (Ok(reply.status) \/ reply.status = 201) /\ ~reply.body.valid
    THEN Respond(CatchResponse(Req.route)) /\ UNCHANGED createResult
    ELSE LET cr == CreateRecipeResult(reply)
         IN /\ createResult' = Some(cr)
            /\ IF IsNone(cr.data)
               THEN Respond(CreateFailureResponse(Req.route, parseResult, cr))
               ELSE IF ShouldUpload(ImageUrl, Get(cr.data).id)
               THEN pc' = "image_fetch" /\ UNCHANGED result
               ELSE Respond(CreatedResponse(Get(cr.data)))

\* fetchWithAuthFallback of createRecipe: the first request.
CreateFirst ==
    /\ pc = "create_first"
    /\ \E reply \in Replies(CreateBodies) :
          LET scheme == FirstScheme(authScheme)
          IN /\ log' = Append(log, Request("create", "POST", CreateTarget, scheme, CreateBody, reply))
             /\ IF reply.threw
                THEN Respond(CatchResponse(Req.route)) /\ UNCHANGED <<authScheme, createResult>>
                ELSE IF AuthRejected(reply.status)
                THEN /\ authScheme' = BEARER
                     /\ pc' = "create_retry"
                     /\ UNCHANGED <<createResult, result>>
                ELSE authScheme' = TOKEN /\ CreateReturned(reply)
    /\ UNCHANGED <<request, parseResult, uploadResult, fnVars, extractVars, pageVars>>

\* fetchWithAuthFallback of createRecipe: the request under Bearer.
CreateRetry ==
    /\ pc = "create_retry"
    /\ \E reply \in Replies(CreateBodies) :
          /\ log' = Append(log, Request("create", "POST", CreateTarget, BEARER, CreateBody, reply))
          /\ IF reply.threw
             THEN Respond(CatchResponse(Req.route)) /\ UNCHANGED createResult
             ELSE CreateReturned(reply)
    /\ UNCHANGED <<request, authScheme, parseResult, uploadResult, fnVars, extractVars, pageVars>>

Created == Get(Get(createResult).data)

\* uploadImageFromUrl has returned: the route answers.
UploadReturned(upload) ==
    /\ uploadResult' = Some(upload)
    /\ Respond(AfterUploadResponse(Created, upload))

\* uploadImageFromUrl: fetch(imageUrl), answered ok, not ok, or rejected.
ImageFetch ==
    /\ pc = "image_fetch"
    /\ \E reply \in {Thrown} \cup {[Thrown EXCEPT !.threw = FALSE, !.status = st] : st \in {200, 404}} :
          /\ log' = Append(log, Request("image", "GET", Get(ImageUrl), "", "", reply))
          /\ IF reply.threw
             THEN UploadReturned([success |-> FALSE, error |-> Some("fetch failed")])
             ELSE IF ~Ok(reply.status)
             THEN UploadReturned([success |-> FALSE, error |-> Some("Failed to fetch image")])
             ELSE pc' = "image_put" /\ UNCHANGED <<uploadResult, result>>
    /\ UNCHANGED <<request, authScheme, parseResult, createResult, fnVars, extractVars, pageVars>>

\* `/api/recipe/${recipeId}/image/`
IdText(id) == IF IsSome(id) THEN ToString(Get(id)) ELSE "undefined"
UploadTarget == buildUrl(Req.baseUrl, <<"api", "recipe", IdText(Created.id), "image", "">>)

\* uploadImageFromUrl: the PUT of the image, once, under getAuthHeader().
ImagePut ==
    /\ pc = "image_put"
    /\ \E reply \in Replies({InvalidJson}) :
          /\ log' = Append(log, Request("upload", "PUT", UploadTarget, getAuthHeader(authScheme),
                                        "image=recipe_image.jpg", reply))
          /\ IF reply.threw
             THEN UploadReturned([success |-> FALSE, error |-> Some("fetch failed")])
             ELSE IF UploadAccepted(reply.status)
             THEN UploadReturned([success |-> TRUE, error |-> None])
             ELSE UploadReturned([success |-> FALSE, error |-> Some(reply.text)])
    /\ UNCHANGED <<request, authScheme, parseResult, createResult, fnVars, extractVars, pageVars>>

Next ==
    \/ ImportStart
    \/ TandoorStart
    \/ ParseFirst
    \/ ParseRetry
    \/ CreateFirst
    \/ CreateRetry
    \/ ImageFetch
    \/ ImagePut

Spec == Init /\ [][Next]_vars

\* ------------------------------------------------------------ /api/extract

\* The candidate imageUrl of normalizeImage: the image itself when it is a
\* string, the first element of an array (or its url), the url of an object;
\* nothing for a falsy image and for every other shape.
ImageCandidate(image) ==
    IF ~Truthy(image) THEN None
    ELSE LET img == Get(image)
             first == IF img.items = <<>> THEN None ELSE Some(Member(<<>>, img.items[1]))
         IN CASE img.t = "string" -> image
              [] img.t = "array" ->
                    IF IsSome(first) /\ Get(first).t = "string" THEN first
                    ELSE IF /\ IsSome(first) /\ Get(first).t \in {"object", "array"}
                            /\ Truthy(GetProp(Get(first), URL))
                    THEN GetProp(Get(first), URL)
                    ELSE None
              [] img.t = "object" ->
                    IF Truthy(GetProp(img, URL)) THEN GetProp(img, URL) ELSE None
              [] OTHER -> None

StartsWithHttp(cs) == Len(cs) >= 4 /\ SubSeq(cs, 1, 4) = <<"h", "t", "t", "p">>

\* imageUrl && imageUrl.startsWith('http'): a truthy candidate that is not a
\* string has no startsWith, and the call throws a TypeError outside the try.
StartsWithThrows(candidate) == Truthy(candidate) /\ Get(candidate).t # "string"
IsProbed(candidate) ==
    Truthy(candidate) /\ Get(candidate).t = "string" /\ StartsWithHttp(Get(candidate).str)

\* The answers to the HEAD request: check.ok, a status that is not ok, a throw.
HeadOutcomes == {"ok", "not_ok", "throws"}

\* normalizeImage(image), given the answer to its HEAD request (if it sends
\* one): the URL, or null (JNull).
normalizeImage(image, head) ==
    IF IsProbed(ImageCandidate(image)) /\ head = "ok" THEN Get(ImageCandidate(image))
    ELSE JNull

POLLINATIONS_BASE_URL ==
    <<"h", "t", "t", "p", "s", ":", "/", "/", "p", "o", "l", "l", "i", "n", "a", "t", "i",
      "o", "n", "s", ".", "a", "i", "/", "p">>
DELICIOUS_FOOD == <<"d", "e", "l", "i", "c", "i", "o", "u", "s", " ", "f", "o", "o", "d">>
RECIPE_INGREDIENT ==
    <<"r", "e", "c", "i", "p", "e", "I", "n", "g", "r", "e", "d", "i", "e", "n", "t">>
COMMA_SPACE == <<",", " ">>

\* encodeURIComponent, for the characters of this model: the space and the
\* comma are escaped, letters, digits and "." stay.
RECURSIVE encodeURIComponent(_)
encodeURIComponent(cs) ==
    IF cs = <<>> THEN <<>>
    ELSE (CASE Head(cs) = " " -> <<"%", "2", "0">>
            [] Head(cs) = "," -> <<"%", "2", "C">>
            [] Head(cs) = "[" -> <<"%", "5", "B">>
            [] Head(cs) = "]" -> <<"%", "5", "D">>
            [] OTHER -> <<Head(cs)>>) \o encodeURIComponent(Tail(cs))

\* Array.prototype.join(", ") over (string | RecipeIngredient)[]: a string as
\* it is, an object as "[object Object]".
OBJECT_OBJECT ==
    <<"[", "o", "b", "j", "e", "c", "t", " ", "O", "b", "j", "e", "c", "t", "]">>
RECURSIVE JoinIngredients(_)
JoinIngredients(items) ==
    IF items = <<>> THEN <<>>
    ELSE (IF Head(items).t = "string" THEN Head(items).str ELSE OBJECT_OBJECT)
           \o (IF Len(items) > 1 THEN COMMA_SPACE ELSE <<>>)
           \o JoinIngredients(Tail(items))

\* recipe.recipeIngredient.slice(0, 3)
Slice3(items) == SubSeq(items, 1, IF Len(items) < 3 THEN Len(items) ELSE 3)

\* generateFallbackImageUrl(recipe): the base URL, "/", the encoded prompt and
\* the query. Of the prompt the model keeps what depends on the recipe, the
\* name, ", " and the ingredients; its fixed words and the rest of the query
\* are left out.
generateFallbackImageUrl(value) ==
    LET name == IF value.t = "null" THEN None ELSE GetProp(value, NAME)
        listed == IF value.t = "null" THEN None ELSE GetProp(value, RECIPE_INGREDIENT)
        ingredients == IF IsSome(listed) /\ Get(listed).t = "array"
                       THEN JoinIngredients(Slice3(Get(listed).items))
                       ELSE <<>>
        prompt == (IF Truthy(name) /\ Get(name).t = "string" THEN Get(name).str
                   ELSE DELICIOUS_FOOD) \o COMMA_SPACE \o ingredients
    IN POLLINATIONS_BASE_URL \o <<"/">> \o encodeURIComponent(prompt)
         \o <<"?", "m", "o", "d", "e", "l", "=", "f", "l", "u", "x">>

\* ---- the requests and the answers of the services

ERROR == <<"e", "r", "r", "o", "r">>
NOT_A_RECIPE == JObj(<<Member(ERROR, JStr(<<"N", "o", "t", " ", "a", " ", "r", "e", "c", "i", "p", "e">>))>>)

\* The shapes of the image member of a candidate record.
ImageShapes ==
    {JNull, JNum(5), JStr(<<>>), JStr(HTTP_IMAGE), JStr(<<"i", ".", "p", "n", "g">>),
     JArr(<<>>), JArr(<<JNull>>), JArr(<<JStr(HTTP_IMAGE), JStr(PIE)>>),
     JArr(<<JObj(<<Member(URL, JStr(HTTP_IMAGE))>>)>>),
     JArr(<<JObj(<<Member(URL, JNum(5))>>)>>),
     JObj(<<>>), JObj(<<Member(URL, JStr(HTTP_IMAGE))>>),
     JObj(<<Member(URL, JNum(5))>>),
     JObj(<<Member(URL, JArr(<<JStr(HTTP_IMAGE)>>))>>)}
\* recipeIngredient of a candidate record: strings or structured ingredients,
\* up to four of them, or no array at all.
IngredientLists ==
    {JArr(<<>>), JStr(<<"a">>), JArr(<<JStr(<<"a", " ", "b">>), JObj(<<>>)>>),
     JArr(<<JStr(<<"a">>), JStr(<<"b">>), JStr(<<"c">>), JStr(<<"d">>)>>)}
\* The records the model is asked for: with or without a name, a url (its own,
\* empty or null) and an image.
CandidateRecords ==
    {JObj(n \o u \o i) :
        n \in {<<>>, <<Member(NAME, JStr(PIE))>>},
        u \in {<<>>} \cup {<<Member(URL, x)>> : x \in {JStr(HTTP_IMAGE), JStr(<<>>), JNull}},
        i \in {<<>>} \cup {<<Member(IMAGE, x)>> : x \in ImageShapes}}
      \cup
    {JObj(<<Member(NAME, JStr(PIE)), Member(RECIPE_INGREDIENT, g)>> \o i) :
        g \in IngredientLists,
        i \in {<<>>} \cup {<<Member(IMAGE, x)>> : x \in {JStr(HTTP_IMAGE), JObj(<<>>)}}}
\* What response.text() can be: a record, the not-a-recipe signal or another
\* JSON value, as it is or between fences and prose; or a text that is no JSON.
ResponseTexts ==
    {JSONstringify(v) : v \in CandidateRecords \cup {NOT_A_RECIPE, JArr(<<>>), JNum(5), JNull, JStr(PIE)}}
      \cup {Wrapped(JSONstringify(v), <<"a", " ">>, FENCE_JSON, <<" ", "a">>) :
                v \in {NOT_A_RECIPE, JObj(<<Member(NAME, JStr(PIE))>>), JArr(<<>>)}}
      \cup {<<"s", "o", "r", "r", "y">>, <<>>, <<"{">>, <<"}", " ", "{">>, <<"a", "}">>,
            <<"{", "a", "}">>, <<"{", "}", "}">>, <<"[", "{", "}", "]">>}

\* A request: the x-gemini-api-key header, a multipart form (with or without
\* its file) or a body (JSON or not) { content, type }.
ExtractRequests ==
    [apiKey : BOOLEAN, multipart : {TRUE}, file : BOOLEAN, jsonBody : {FALSE},
     type : {"none"}, content : {<<>>}]
      \cup
    [apiKey : BOOLEAN, multipart : {FALSE}, file : {FALSE}, jsonBody : {FALSE},
     type : {"none"}, content : {<<>>}]
      \cup
    {[apiKey |-> k, multipart |-> FALSE, file |-> FALSE, jsonBody |-> TRUE,
      type |-> b[1], content |-> b[2]] :
        k \in BOOLEAN, b \in {<<"url", HTTP_PAGE>>, <<"text", PIE>>, <<"text", HTTP_PAGE>>}}

InitExtract ==
    /\ FnIdle
    /\ RouteIdle
    /\ PageIdle
    /\ \E r \in ExtractRequests : req = Some(r)
    /\ extractPc = "start"
    /\ extractLog = <<>>
    /\ text = None
    /\ parsedRecipe = None
    /\ extractResult = None

\* let sourceUrl = ""; if (type === 'url') sourceUrl = content
SourceUrl == IF Get(req).type = "url" THEN Get(req).content ELSE <<>>

ExtractRespond(response) == extractResult' = Some(response) /\ extractPc' = "done"
\* An outbound call in the log: ok when it did not throw (for HEAD: when
\* check.ok), httpOk when it was answered with a success status.
Called(call, ok) ==
    extractLog' = Append(extractLog, [call |-> call, ok |-> ok, httpOk |-> ok])

\* fetchUrlContent: fetch(url) throws (network error, timeout) or is answered;
\* response.text() is read whatever the status.
ContentFetches == {"ok", "not_ok", "throws"}
ContentFetched(fetch) ==
    extractLog' = Append(extractLog, [call |-> "fetchUrlContent", ok |-> fetch # "throws",
                                      httpOk |-> fetch = "ok"])

\* try { textToAnalyze = await fetchUrlContent(content) } catch { return ... }:
\* where the handler stands after the fetch
AfterContentFetchIgnoringFailure(fetched) == "extracting"
AfterContentFetch(fetched) == IF fetched THEN "extracting" ELSE "done"

\* POST, up to the call of the model: the key, the form or the body, and for
\* a URL the fetch of its content.
ExtractStart ==
    /\ extractPc = "start"
    /\ LET r == Get(req)
       IN IF ~r.apiKey
          THEN ExtractRespond(createErrorResponse("Missing Gemini API Key", 401, None))
               /\ UNCHANGED extractLog
          ELSE IF r.multipart /\ ~r.file
          THEN ExtractRespond(createErrorResponse("No file provided", 400, None))
               /\ UNCHANGED extractLog
          ELSE IF ~r.multipart /\ ~r.jsonBody
          THEN ExtractRespond(createErrorResponse("Extraction failed", 500, Some(<<"S">>)))
               /\ UNCHANGED extractLog
          ELSE IF ~r.multipart /\ r.type = "url"
          THEN \E fetch \in ContentFetches :
                  /\ ContentFetched(fetch)
                  /\ extractPc' = AfterContentFetch(fetch # "throws")
                  /\ IF AfterContentFetch(fetch # "throws") = "done"
                     THEN extractResult' =
                              Some(createErrorResponse("Failed to fetch URL", 400, None))
                     ELSE UNCHANGED extractResult
          ELSE extractPc' = "extracting" /\ UNCHANGED <<extractLog, extractResult>>
    /\ UNCHANGED <<req, text, parsedRecipe, fnVars, routeVars, pageVars>>

\* model.generateContent([EXTRACTION_PROMPT, ...promptParts]) and response.text()
GenerateContent ==
    /\ extractPc = "extracting"
    /\ \/ /\ Called("generateContent", FALSE)
          /\ ExtractRespond(createErrorResponse("Extraction failed", 500, Some(<<"E">>)))
          /\ UNCHANGED text
       \/ \E t \in ResponseTexts :
             /\ Called("generateContent", TRUE)
             /\ text' = Some(t)
             /\ extractPc' = "normalizing"
             /\ UNCHANGED extractResult
    /\ UNCHANGED <<req, parsedRecipe, fnVars, routeVars, pageVars>>

\* The catch of the inner try: the raw text goes out as the details.
ParseErrorResponse == createErrorResponse("Failed to parse API response", 500, text)

\* cleanJsonResponse(text) and JSON.parse(cleanJson)
Normalize ==
    /\ extractPc = "normalizing"
    /\ LET parsed == JSONparse(cleanJsonResponse(Get(text)))
       IN IF IsNone(parsed)
          THEN ExtractRespond(ParseErrorResponse) /\ UNCHANGED parsedRecipe
          ELSE parsedRecipe' = parsed /\ extractPc' = "enriching" /\ UNCHANGED extractResult
    /\ UNCHANGED <<req, extractLog, text, fnVars, routeVars, pageVars>>

\* if (sourceUrl && !recipe.url) recipe.url = sourceUrl
InjectsUrlAlways(value) == SourceUrl # <<>>
InjectsUrl(value) == SourceUrl # <<>> /\ ~Truthy(GetProp(value, URL))
WithUrl(value) == IF InjectsUrl(value) THEN SetProp(value, URL, JStr(SourceUrl)) ELSE value

\* recipe.image = await normalizeImage(recipe.image), then the fallback
WithImage(value, head) ==
    LET image == normalizeImage(GetProp(value, IMAGE), head)
    IN IF Truthy(Some(image)) THEN SetProp(value, IMAGE, image)
       ELSE SetProp(value, IMAGE, JStr(generateFallbackImageUrl(value)))

\* The rest of the try: the source URL, the image, the answer. A TypeError on
\* the way is caught with the SyntaxErrors of JSON.parse.
Enrich ==
    /\ extractPc = "enriching"
    /\ LET parsed == Get(parsedRecipe)
           candidate == ImageCandidate(GetProp(WithUrl(parsed), IMAGE))
       IN IF ReadThrows(parsed) \/ (InjectsUrl(parsed) /\ WriteThrows(parsed))
          THEN ExtractRespond(ParseErrorResponse) /\ UNCHANGED extractLog
          ELSE IF StartsWithThrows(candidate)
          THEN ExtractRespond(ParseErrorResponse) /\ UNCHANGED extractLog
          ELSE \E head \in HeadOutcomes :
                  /\ IF IsProbed(candidate) THEN Called("HEAD", head = "ok")
                     ELSE head = "ok" /\ UNCHANGED extractLog
                  /\ IF WriteThrows(parsed) THEN ExtractRespond(ParseErrorResponse)
                     ELSE ExtractRespond([status |-> 200,
                                          body |-> WithImage(WithUrl(parsed), head)])
    /\ UNCHANGED <<req, text, parsedRecipe, fnVars, routeVars, pageVars>>

NextExtract ==
    \/ ExtractStart
    \/ GenerateContent
    \/ Normalize
    \/ Enrich

SpecExtract == InitExtract /\ [][NextExtract]_vars

\* ------------------------------------------------------------------ the page

\* What the user submits: a string (a URL or a text) or a File, with the
\* options MagicPasteInput passes (none for a dropped or pasted File).
FileContent == [isFile |-> TRUE, str |-> <<>>]
StringContent(cs) == [isFile |-> FALSE, str |-> cs]
PageInputs ==
    {[content |-> StringContent(c), options |-> Some([useTandoorImport |-> u])] :
        c \in {HTTP_PAGE, PIE}, u \in BOOLEAN}
      \cup {[content |-> FileContent, options |-> None]}

InitPage ==
    /\ FnIdle
    /\ RouteIdle
    /\ ExtractIdle
    /\ PageIdle

ExtractCalls == {i \in 1..Len(calls) : calls[i].fn = "handleExtract"}

\* options?.useTandoorImport && typeof content === 'string' && content.startsWith('http')
UsesTandoorImportForAnyString(content, options) ==
    IsSome(options) /\ Get(options).useTandoorImport /\ ~content.isFile
UsesTandoorImport(content, options) ==
    /\ IsSome(options) /\ Get(options).useTandoorImport
    /\ ~content.isFile /\ StartsWithHttp(content.str)

\* handleExtract(content, options) up to the await of its fetch, with what
\* localStorage holds: configured (Tandoor URL and token), hasKey (Gemini key).
\* Without the settings it needs, the task alerts, clears isLoading and ends.
handleExtract(content, options, by, configured, hasKey) ==
    LET import == UsesTandoorImport(content, options)
        sends == IF import THEN configured ELSE hasKey
    IN /\ calls' = Append(calls, [fn |-> "handleExtract", content |-> content,
                                  options |-> options, by |-> by])
       /\ lastInputRef' = Some([content |-> content, options |-> options])
       /\ recipe' = None
       /\ shownFrom' = 0
       /\ isLoading' = sends
       /\ inFlight' = IF sends
                      THEN inFlight \cup {[id |-> Len(calls) + 1,
                                           route |-> IF import THEN "import" ELSE "extract"]}
                      ELSE inFlight
       /\ UNCHANGED settled

\* MagicPasteInput.onSubmit: the input is rendered while there is no recipe;
\* isLoading only takes the pointer events away, Enter and paste still submit.
Submit ==
    /\ recipe = None
    /\ Cardinality(ExtractCalls) < MaxCalls
    /\ \E input \in PageInputs, configured \in BOOLEAN, hasKey \in BOOLEAN :
          handleExtract(input.content, input.options, "submit", configured, hasKey)
    /\ UNCHANGED <<fnVars, routeVars, extractVars>>

\* handleExtract(lastInputRef.current.content, lastInputRef.current.options)
RetryOptionsDropped(last) == None
RetryOptions(last) == last.options

\* RecipeCard.onRetry: the button is rendered with the recipe and disabled
\* while isLoading.
handleRetry ==
    /\ recipe # None /\ ~isLoading
    /\ IF lastInputRef # None
       THEN /\ Cardinality(ExtractCalls) < MaxCalls
            /\ \E configured \in BOOLEAN, hasKey \in BOOLEAN :
                  handleExtract(Get(lastInputRef).content, RetryOptions(Get(lastInputRef)),
                                "retry", configured, hasKey)
       ELSE UNCHANGED pageVars
    /\ UNCHANGED <<fnVars, routeVars, extractVars>>

\* RecipeCard.onReset
handleReset ==
    /\ recipe # None /\ ~isLoading
    /\ recipe' = None
    /\ shownFrom' = 0
    /\ lastInputRef' = None
    /\ calls' = Append(calls, [fn |-> "handleReset", content |-> FileContent,
                               options |-> None, by |-> "reset"])
    /\ UNCHANGED <<isLoading, inFlight, settled, fnVars, routeVars, extractVars>>

\* How an awaited fetch ends: res.ok, !res.ok, or a throw (network error,
\* body that is not JSON).
FetchOutcomes == {"ok", "notOk", "thrown"}

\* setRecipe(data) is reached in handleGeminiExtraction only, past its
\* throw for !res.ok.
SetsRecipeOnAnyOk(f, outcome) == outcome = "ok"
SetsRecipe(f, outcome) == f.route = "extract" /\ outcome = "ok"

\* The fetch of a call resolves and its task runs to its end: setRecipe(data)
\* for an ok answer of /api/extract, an alert otherwise, and
\* setIsLoading(false) in the finally.
Resolve ==
    /\ \E f \in inFlight, outcome \in FetchOutcomes :
          /\ inFlight' = inFlight \ {f}
          /\ settled' = settled \cup {[id |-> f.id, route |-> f.route, outcome |-> outcome]}
          /\ IF SetsRecipe(f, outcome)
             THEN recipe' = Some([response |-> f.id]) /\ shownFrom' = f.id
             ELSE UNCHANGED <<recipe, shownFrom>>
    /\ isLoading' = FALSE
    /\ UNCHANGED <<lastInputRef, calls, fnVars, routeVars, extractVars>>

NextPage ==
    \/ Submit
    \/ handleRetry
    \/ handleReset
    \/ Resolve

SpecPage == InitPage /\ [][NextPage]_vars




\* ---------------------------------------------------------------- C1 .. C8

\* The requests of one operation, in the order they were issued.
AttemptsOf(op) ==
    LET IsOp(e) == e.op = op
    IN SelectSeq(log, IsOp)
Rejected == {Some(401), Some(403)}
RetryPc(op) == IF op = "parse" THEN "parse_retry" ELSE "create_retry"

\* C1: an operation of fetchWithAuthFallback is retried once, under the other
\* scheme, exactly when its first answer is 401 or 403; any other first answer
\* (500 too) ends it; there are at most two requests, alike but for the scheme.
C1_RetriedOnceIffRejected ==
    \A op \in {"parse", "create"} :
        LET a == AttemptsOf(op)
        IN /\ Len(a) <= 2
           /\ (Len(a) = 2) =>
                 /\ a[1].status \in Rejected
                 /\ a[2].scheme # a[1].scheme
                 /\ a[2].scheme \in {TOKEN, BEARER}
                 /\ [a[2] EXCEPT !.scheme = a[1].scheme, !.status = a[1].status] = a[1]
           /\ (Len(a) >= 1 /\ a[1].status \in Rejected) => (Len(a) = 2 \/ pc = RetryPc(op))
           /\ (pc = RetryPc(op)) => (Len(a) = 1 /\ a[1].status \in Rejected)

C1_Witness ==
    /\ pc = "done"
    /\ Len(AttemptsOf("parse")) = 2
    /\ AttemptsOf("parse")[1].status = Some(403)
    /\ AttemptsOf("parse")[2].status = Some(200)
    /\ Len(AttemptsOf("create")) = 1
    /\ AttemptsOf("create")[1].status = Some(500)

\* C2 as claimed: after an operation in which Token was rejected and Bearer
\* accepted, the next createRecipe of the client sends Bearer first.
C2_FirstAttemptUsesAssumedScheme ==
    LET p == AttemptsOf("parse")
        c == AttemptsOf("create")
    IN (Len(p) = 2 /\ p[1].scheme = TOKEN /\ p[1].status \in Rejected
            /\ p[2].scheme = BEARER /\ p[2].status = Some(200) /\ Len(c) >= 1)
        => c[1].scheme = BEARER

\* C2 as amended: the first request of every parseRecipeFromUrl and createRecipe
\* is sent under Token whatever the client assumes; after a parse in which
\* Token was rejected the client assumes Bearer, and the next createRecipe
\* still starts with Token.
C2_FirstAttemptAlwaysToken ==
    /\ \A op \in {"parse", "create"} :
          Len(AttemptsOf(op)) >= 1 => AttemptsOf(op)[1].scheme = TOKEN
    /\ (pc = "create_first" /\ Len(AttemptsOf("parse")) = 2) => authScheme = BEARER

C2_Witness ==
    LET p == AttemptsOf("parse")
        c == AttemptsOf("create")
    IN /\ Len(p) = 2 /\ p[1].status = Some(401) /\ p[2].scheme = BEARER /\ p[2].status = Some(200)
       /\ Len(c) = 1 /\ c[1].scheme = TOKEN /\ c[1].status = Some(201)

\* C3 as claimed: a PUT of the image answered 401 or 403 is retried once under
\* the other scheme before the upload reports failure.
C3_UploadRetriedWhenRejected ==
    LET u == AttemptsOf("upload")
    IN (pc = "done" /\ Len(u) >= 1 /\ u[1].status \in Rejected)
        => (Len(u) = 2 /\ u[2].scheme # u[1].scheme)

\* C3 as amended: the PUT of the image is sent at most once, under the scheme
\* the client assumes, and when it is answered 401 or 403 the upload reports
\* failure without a second request.
C3_UploadSentOnce ==
    LET u == AttemptsOf("upload")
    IN /\ Len(u) <= 1
       /\ (Len(u) = 1) => u[1].scheme = authScheme
       /\ (pc = "done" /\ Len(u) = 1 /\ u[1].status \in Rejected)
            => (IsSome(uploadResult) /\ ~Get(uploadResult).success)

C3_Witness ==
    /\ pc = "done"
    /\ Len(AttemptsOf("upload")) = 1
    /\ AttemptsOf("upload")[1].status = Some(401)
    /\ AttemptsOf("upload")[1].scheme = BEARER
    /\ uploadResult = Some([success |-> FALSE, error |-> Some("detail-a")])

Stage == [parse |-> 1, create |-> 2, image |-> 3, upload |-> 4]

\* C4: in the import flow the requests come in the order parse, create, upload;
\* createRecipe is asked only after parseRecipeFromUrl returned a recipe_json,
\* the upload only after createRecipe returned a record with an id, and after
\* a failed parse neither is ever asked.
C4_ParseCreateUploadInOrder ==
    (IsSome(request) /\ Req.route = "import") =>
        /\ \A i, j \in 1..Len(log) : i < j => Stage[log[i].op] <= Stage[log[j].op]
        /\ (pc \in {"parse_first", "parse_retry"}) =>
              \A i \in 1..Len(log) : log[i].op = "parse"
        /\ (\E i \in 1..Len(log) : log[i].op # "parse") =>
              /\ IsSome(parseResult)
              /\ Get(parseResult).status \in {200, 201}
              /\ IsSome(Get(parseResult).data)
              /\ IsSome(Get(Get(parseResult).data).recipe_json)
        /\ (\E i \in 1..Len(log) : log[i].op \in {"image", "upload"}) =>
              /\ IsSome(createResult)
              /\ IsSome(Get(createResult).data)
              /\ Get(Get(createResult).data).id \notin {None, Some(0)}
              /\ pc \notin {"create_first", "create_retry"}

C4_Witness ==
    /\ Req.route = "import"
    /\ pc = "done"
    /\ Len(log) = 5
    /\ <<log[1].op, log[2].op, log[3].op, log[4].op, log[5].op>>
          = <<"parse", "parse", "create", "image", "upload">>

\* C5: once createRecipe has returned a record, either route answers 201 with
\* that record, whatever the upload of the image ended in.
C5_CreatedEvenIfUploadFails ==
    (pc = "done" /\ IsSome(createResult) /\ IsSome(Get(createResult).data)) =>
        /\ IsSome(result)
        /\ Get(result).status = 201
        /\ Get(result).created = Get(createResult).data
        /\ Get(result).error = None

C5_Witness ==
    /\ pc = "done"
    /\ Req.route = "tandoor"
    /\ Len(AttemptsOf("upload")) = 1
    /\ AttemptsOf("upload")[1].status = None
    /\ uploadResult = Some([success |-> FALSE, error |-> Some("fetch failed")])
    /\ Get(result).status = 201

\* C6: in the import flow, when the parse gave a recipe and createRecipe
\* returned a failure, the answer carries the parsed record, the error of the
\* creation and its status, and no upload is tried.
C6_CreateFailureKeepsParsed ==
    (/\ IsSome(request) /\ Req.route = "import" /\ pc = "done"
     /\ IsSome(createResult) /\ IsNone(Get(createResult).data)) =>
        /\ Get(result).status = Get(createResult).status
        /\ Get(result).details = Get(createResult).error
        /\ IsSome(Get(result).parsed)
        /\ Get(result).parsed = Get(parseResult).data
        /\ IsSome(Get(Get(result).parsed).recipe_json)
        /\ Get(result).created = None
        /\ \A i \in 1..Len(log) : log[i].op \notin {"image", "upload"}

C6_Witness ==
    /\ Req.route = "import" /\ pc = "done"
    /\ Len(AttemptsOf("create")) = 2
    /\ AttemptsOf("create")[2].status = Some(400)
    /\ Get(result).status = 400
    /\ Get(result).details = Some("detail-b")
    /\ IsSome(Get(result).parsed)

\* C7: when the final response of parseRecipeFromUrl is a 500, on the first or
\* on the fallback request, the import ends in the error that recommends the AI
\* extraction, and createRecipe is not called.
C7_ParseServerErrorRecommendsAI ==
    LET p == AttemptsOf("parse")
    IN (Len(p) >= 1 /\ p[Len(p)].status = Some(500)) =>
        /\ pc = "done"
        /\ Get(result).status = 502
        /\ Get(result).details = Some(AI_EXTRACTION_HINT)
        /\ Len(AttemptsOf("create")) = 0

C7_Witness ==
    /\ Len(AttemptsOf("parse")) = 2
    /\ AttemptsOf("parse")[2].status = Some(500)
    /\ pc = "done"

\* C8 as claimed: a failed upload of the image shows in the answer of the
\* route, which so differs from the answer of a run whose upload succeeded.
C8_UploadFailureSurfaced ==
    (pc = "done" /\ IsSome(uploadResult) /\ ~Get(uploadResult).success) =>
        Get(result) # CreatedResponse(Created)


\* ------------------------------------------------------------------ C11
\* A duration of the PT#H#M pattern: "PT", then optionally digits and "H",
\* then optionally digits and "M", and nothing else.
AllDigits(ds) == \A i \in 1..Len(ds) : ds[i] \in Digits
WithUnit(ds, X) == IF ds = <<>> THEN <<>> ELSE ds \o <<X>>
DurationParts(s) ==
    {p \in ({<<>>} \cup {SubSeq(s, 3, b) : b \in 3..Len(s)})
             \X ({<<>>} \cup {SubSeq(s, a, Len(s) - 1) : a \in 3..(Len(s) - 1)}) :
        /\ AllDigits(p[1]) /\ AllDigits(p[2])
        /\ s = <<"P", "T">> \o WithUnit(p[1], "H") \o WithUnit(p[2], "M")}
FollowsPattern(s) == DurationParts(s) # {}

RECURSIVE Pow10(_)
Pow10(n) == IF n = 0 THEN 1 ELSE 10 * Pow10(n - 1)
RECURSIVE Decimal(_)
Decimal(ds) ==
    IF ds = <<>> THEN 0 ELSE DigitValue(Head(ds)) * Pow10(Len(ds) - 1) + Decimal(Tail(ds))

\* 60 * h + m of a duration that follows the pattern
PatternMinutes(s) ==
    LET p == CHOOSE q \in DurationParts(s) : TRUE IN 60 * Decimal(p[1]) + Decimal(p[2])

PTStarts(s) == {i \in 1..(Len(s) - 1) : s[i] = "P" /\ s[i + 1] = "T"}
\* the longest text that starts at the first "PT" of s and follows the pattern
LongestPatternFromPT(s) ==
    LET r == SubSeq(s, Least(PTStarts(s)), Len(s))
    IN SubSeq(r, 1, Greatest({k \in 2..Len(r) : FollowsPattern(SubSeq(r, 1, k))}))

\* C11 as stated: parseDuration returns 60*h + m for every input of the
\* PT#H#M pattern, 0 for absent input and 0 for every input that does not
\* follow the pattern, and the result is a non-negative integer.
C11_ZeroUnlessPatternFollowed ==
    fnOp = "parseDuration" =>
        LET d == fnInput.isoDuration
        IN /\ fnOutput \in Nat
           /\ IsNone(d) => fnOutput = 0
           /\ IsSome(d) /\ FollowsPattern(Get(d)) => fnOutput = PatternMinutes(Get(d))
           /\ IsSome(d) /\ ~FollowsPattern(Get(d)) => fnOutput = 0

\* C11, amended: parseDuration returns 60*h + m for every input of the PT#H#M
\* pattern, 0 for absent input and for every input without "PT"; for any
\* other input it returns 60*h + m of the longest text that starts at the
\* first "PT" and follows the pattern, whatever surrounds it; the result is a
\* non-negative integer.
C11_MinutesOfFirstPT ==
    fnOp = "parseDuration" =>
        LET d == fnInput.isoDuration
        IN /\ fnOutput \in Nat
           /\ IsNone(d) => fnOutput = 0
           /\ IsSome(d) /\ FollowsPattern(Get(d)) => fnOutput = PatternMinutes(Get(d))
           /\ IsSome(d) /\ PTStarts(Get(d)) = {} => fnOutput = 0
           /\ IsSome(d) /\ PTStarts(Get(d)) # {} =>
                  fnOutput = PatternMinutes(LongestPatternFromPT(Get(d)))

\* parseDuration("PT1H30M") has returned 90.
C11_Witness ==
    /\ fnOp = "parseDuration"
    /\ fnInput.isoDuration = Some(<<"P", "T", "1", "H", "3", "0", "M">>)
    /\ fnOutput = 90


\* ------------------------------------------------------------------ C12
\* The first integer embedded in a string: the digits from the first digit to
\* the last digit of the run it starts.
FirstInteger(s) ==
    LET i == Least({k \in 1..Len(s) : s[k] \in Digits})
        j == Greatest({k \in i..Len(s) : AllDigits(SubSeq(s, i, k))})
    IN Decimal(SubSeq(s, i, j))

\* C12: parseServings returns the count n and the empty text for every
\* numeric input n; for a string, the first embedded integer (1 if the string
\* has no digit) and the trimmed string; for absent input, 1 and the empty text.
C12_ServingsOfEveryInput ==
    fnOp = "parseServings" =>
        LET y == fnInput.yieldValue
        IN /\ IsNone(y) => fnOutput = [amount |-> 1, text |-> <<>>]
           /\ IsSome(y) /\ Get(y).isNumber =>
                  fnOutput = [amount |-> Get(y).number, text |-> <<>>]
           /\ IsSome(y) /\ ~Get(y).isNumber =>
                  /\ fnOutput.text = Trim(Get(y).text)
                  /\ fnOutput.amount = IF \E k \in 1..Len(Get(y).text) : Get(y).text[k] \in Digits
                                       THEN FirstInteger(Get(y).text) ELSE 1


\* ------------------------------------------------------------------ C13
HoldsFence(value) ==
    \E i \in 1..(Len(JSONstringify(value)) - 2) :
        SubSeq(JSONstringify(value), i, i + 2) = FENCE

\* C13: normalizing a clean JSON object and normalizing the same object
\* wrapped in code-fence markers, with prose before and after, yield the same
\* parsed object; it is the object the text was written from unless a string
\* of the object itself holds a fence marker.
C13_WrappingDoesNotMatter ==
    fnOp = "cleanJsonResponse" =>
        /\ IsSome(fnOutput.clean)
        /\ fnOutput.wrapped = fnOutput.clean
        /\ ~HoldsFence(fnInput.args.doc) => fnOutput.clean = Some(fnInput.args.doc)

\* An object with nested braces, wrapped in "```json" and "```" between two
\* pieces of prose, has been normalized to itself.
C13_Witness ==
    /\ fnOp = "cleanJsonResponse"
    /\ fnInput.args.before = <<"a", "}">>
    /\ fnInput.args.after = <<"{", "a">>
    /\ fnInput.args.opening = FENCE_JSON
    /\ GetProp(fnInput.args.doc, IMAGE) = Some(JObj(<<Member(URL, JStr(HTTP_IMAGE))>>))
    /\ fnOutput.wrapped = Some(fnInput.args.doc)


\* ------------------------------------------------------------------ C14
\* The substring located in a response: from its first opening brace to its
\* last closing brace, when the one stands before the other.
Braces(t, brace) == {i \in 1..Len(t) : t[i] = brace}
HasLocated(t) ==
    /\ Braces(t, "{") # {} /\ Braces(t, "}") # {}
    /\ Least(Braces(t, "{")) < Greatest(Braces(t, "}"))
Located(t) == SubSeq(t, Least(Braces(t, "{")), Greatest(Braces(t, "}")))
IsParseError(response, raw) ==
    /\ response.status = 500
    /\ response = createErrorResponse("Failed to parse API response", 500, Some(raw))

\* C14: whenever the response of the model holds no substring from an opening
\* to a closing brace, or the located substring is not valid JSON, the
\* extraction ends with the parse error that carries the raw text, and not
\* with a record returned as success.
C14_NoObjectIsParseError ==
    (extractPc = "done" /\ IsSome(text)) =>
        ((~HasLocated(Get(text)) \/ IsNone(JSONparse(Located(Get(text)))))
            => IsParseError(Get(extractResult), Get(text)))


\* ------------------------------------------------------------------ C15
\* C15: whatever the shape of the image member of the candidate record
\* (absent, a string, a sequence of strings or objects, an object whose url
\* holds any value, a URL that cannot be reached), the extraction completes
\* with a record whose image is one non-empty URL string.
C15_ImageAlwaysResolved ==
    (extractPc = "done" /\ IsSome(parsedRecipe) /\ Get(parsedRecipe).t = "object") =>
        /\ Get(extractResult).status = 200
        /\ LET image == GetProp(Get(extractResult).body, IMAGE)
           IN /\ IsSome(image)
              /\ Get(image).t = "string"
              /\ StartsWithHttp(Get(image).str)


\* ------------------------------------------------------------------ C16
\* A record has a url when its url member holds a value that is not empty.
HasUrl(value) == Truthy(GetProp(value, URL))
IsRecordReturned ==
    /\ extractPc = "done"
    /\ IsSome(parsedRecipe) /\ Get(parsedRecipe).t = "object"
    /\ Get(extractResult).status = 200

\* C16: the record that is returned carries the source URL as its url exactly
\* when the input was a URL and the normalized record had no url; otherwise
\* its url is the one of the normalized record (none for a text or an image
\* whose record has none), and the name is never touched.
C16_UrlInjectedIffMissing ==
    IsRecordReturned =>
        LET in == Get(parsedRecipe)
            out == Get(extractResult).body
        IN /\ GetProp(out, URL) =
                 IF Get(req).type = "url" /\ ~HasUrl(in)
                 THEN Some(JStr(Get(req).content))
                 ELSE GetProp(in, URL)
           /\ GetProp(out, NAME) = GetProp(in, NAME)

\* A record without url, extracted from a URL, has been returned with the
\* source URL as its url.
C16_Witness ==
    /\ IsRecordReturned
    /\ Get(req).type = "url"
    /\ GetProp(Get(parsedRecipe), URL) = None
    /\ GetProp(Get(extractResult).body, URL) = Some(JStr(HTTP_PAGE))


\* ------------------------------------------------------------------ C17
\* Start, Extracting, Normalizing, Enriching, Done
ExtractStage ==
    [start |-> 1, extracting |-> 2, normalizing |-> 3, enriching |-> 4, done |-> 5]
CallsOf(call) == {i \in 1..Len(extractLog) : extractLog[i].call = call}

\* C17: one extraction request moves forward through Start, Extracting,
\* Normalizing, Enriching, Done and never back; it fetches the content at most
\* once and calls the model at most once (the fetch first); and when the fetch
\* of the content fails it ends with the fetch error and the model is never
\* called.
C17_OneForwardPass ==
    /\ [][ExtractStage[extractPc] < ExtractStage[extractPc']]_extractVars
    /\ [](/\ Cardinality(CallsOf("fetchUrlContent")) <= 1
          /\ Cardinality(CallsOf("generateContent")) <= 1
          /\ \A i \in CallsOf("fetchUrlContent") :
                /\ \A j \in CallsOf("generateContent") : i < j
                /\ ~extractLog[i].ok =>
                      /\ CallsOf("generateContent") = {}
                      /\ extractPc = "done"
                      /\ extractResult =
                             Some(createErrorResponse("Failed to fetch URL", 400, None)))

\* A URL has been fetched, the model called once after it, the image probed
\* and the record returned.
C17_Witness ==
    /\ extractPc = "done"
    /\ Get(extractResult).status = 200
    /\ Len(extractLog) = 3
    /\ extractLog[1].call = "fetchUrlContent" /\ extractLog[1].ok
    /\ extractLog[2].call = "generateContent" /\ extractLog[2].ok
    /\ extractLog[3].call = "HEAD"


\* ------------------------------------------------------------------ C18
\* C18: every answer returned as a success is a recipe with its name, and the
\* not-a-recipe signal of the model is answered with a failure, not with a
\* successful record.
C18_SuccessIsNamedRecipe ==
    (extractPc = "done" /\ Get(extractResult).status = 200) =>
        /\ Get(extractResult).body.t = "object"
        /\ Truthy(GetProp(Get(extractResult).body, NAME))
        /\ parsedRecipe # Some(NOT_A_RECIPE)


\* ------------------------------------------------------------------ C19
\* C19: once a newer handleExtract has started, the recipe on display is
\* never one that the response to an older call has stored.
C19_StaleResponseDiscarded ==
    shownFrom # 0 => \A i \in ExtractCalls : i <= shownFrom

\* ------------------------------------------------------------------ C20
\* C20: a call of handleExtract is started by the user only, never by a
\* response; a retry repeats exactly the content and the options of the most
\* recent call of handleExtract, and after handleReset (or before any call)
\* it starts nothing.
C20_RetryRepeatsLastInput ==
    [][/\ (inFlight' # inFlight /\ inFlight' \subseteq inFlight) => calls' = calls
       /\ calls' # calls =>
            /\ calls' = Append(calls, calls'[Len(calls')])
            /\ calls'[Len(calls')].by = "retry" =>
                  /\ calls # <<>>
                  /\ calls[Len(calls)].fn = "handleExtract"
                  /\ calls'[Len(calls')].content = calls[Len(calls)].content
                  /\ calls'[Len(calls')].options = calls[Len(calls)].options]_pageVars

\* A URL submitted without the Tandoor importer has been extracted, shown and
\* retried: the retry carries the same content and options.
C20_Witness ==
    /\ Len(calls) = 2
    /\ calls[1] = [fn |-> "handleExtract", content |-> StringContent(HTTP_PAGE),
                   options |-> Some([useTandoorImport |-> FALSE]), by |-> "submit"]
    /\ calls[2] = [calls[1] EXCEPT !.by = "retry"]
    /\ inFlight = {[id |-> 2, route |-> "extract"]}


\* ------------------------------------------------------------------ C21
\* The requests the page has sent so far, by call and route.
Fetches == inFlight \cup {[id |-> f.id, route |-> f.route] : f \in settled}

IsHttpString(content) ==
    /\ ~content.isFile
    /\ Len(content.str) >= 4
    /\ SubSeq(content.str, 1, 4) = <<"h", "t", "t", "p">>

OptionSet(options) == options # <<>> /\ options[1].useTandoorImport

\* C21: every request of the page belongs to one call of handleExtract, a call
\* sends at most one request, and that request goes to the native-import route
\* when the option is set and the content is a string beginning with http, to
\* the AI extraction route in every other case.
C21_OneRoutePerAction ==
    /\ \A f \in Fetches : f.id \in ExtractCalls
    /\ \A i \in ExtractCalls :
          LET mine == {f \in Fetches : f.id = i}
              native == OptionSet(calls[i].options) /\ IsHttpString(calls[i].content)
          IN /\ Cardinality(mine) <= 1
             /\ \A f \in mine : f.route = IF native THEN "import" ELSE "extract"

\* A URL has gone to the native import and a text submitted with the option
\* set has gone to the AI extraction.
C21_Witness ==
    /\ Len(calls) = 2
    /\ calls[1].content = StringContent(HTTP_PAGE) /\ OptionSet(calls[1].options)
    /\ calls[2].content = StringContent(PIE) /\ OptionSet(calls[2].options)
    /\ Fetches = {[id |-> 1, route |-> "import"], [id |-> 2, route |-> "extract"]}


\* ------------------------------------------------------------------ C29
\* The page with every awaited fetch settling at some time.
SpecPageLive == SpecPage /\ WF_vars(Resolve)

\* C29: isLoading is false whenever no request is in flight, a raised
\* isLoading is cleared again, and the recipe is set only by an ok answer of
\* the AI extraction route, never by the native import.
C29_LoadingAlwaysCleared ==
    /\ [](inFlight = {} => ~isLoading)
    /\ (isLoading ~> ~isLoading)
    /\ [][(recipe' # recipe /\ recipe' # <<>>) =>
             \E f \in settled' \ settled :
                /\ f.route = "extract" /\ f.outcome = "ok"
                /\ recipe' = <<[response |-> f.id]>>]_pageVars

\* An import and an extraction have both ended in a throw, and the flag is
\* down again.
C29_Witness ==
    /\ ~isLoading /\ inFlight = {} /\ recipe = <<>>
    /\ settled = {[id |-> 1, route |-> "import", outcome |-> "thrown"],
                  [id |-> 2, route |-> "extract", outcome |-> "thrown"]}


\* ------------------------------------------------------------------ C22
\* A request of the log that was answered and not rejected as unauthorized or
\* forbidden.
Succeeded(r) == r.status # <<>> /\ r.status[1] \notin {401, 403}

\* C22: between the operations of a client, its assumed scheme is the initial
\* one or a scheme under which an earlier request of the client succeeded.
C22_AssumedSchemeHasSucceeded ==
    pc \notin {"parse_retry", "create_retry"} =>
        \/ authScheme = "Token"
        \/ \E i \in 1..Len(log) : log[i].scheme = authScheme /\ Succeeded(log[i])


\* ------------------------------------------------------------------ C23
\* The instruction as the statement orders it: text, then the instruction
\* field, then the rendering of the step; an empty string counts as absent.
TextFirst(step) ==
    IF step.text # <<>> /\ step.text[1] # <<>> THEN step.text[1]
    ELSE IF step.instruction # <<>> /\ step.instruction[1] # <<>> THEN step.instruction[1]
    ELSE JsonStringify(step)

\* C23: every adapted step's instruction is the source step's text when it is
\* present, otherwise its instruction field, otherwise the rendering of the
\* step.
C23_TextBeforeInstruction ==
    (fnOp = "mapSteps" /\ IsSome(fnInput.args.steps) /\ Len(Get(fnInput.args.steps)) > 0) =>
        \A i \in 1..Len(fnOutput) : fnOutput[i].instruction = TextFirst(Get(fnInput.args.steps)[i])


\* ------------------------------------------------------------------ C24
\* C24: for steps that are absent, not a sequence or empty, mapSteps returns
\* one step "Prepare ingredients" with all the mapped ingredients when there
\* is at least one ingredient, and no step when there is none.
C24_DummyStepForIngredients ==
    (fnOp = "mapSteps" /\ (fnInput.args.steps = <<>> \/ fnInput.args.steps = <<<<>>>>)) =>
        IF Len(fnInput.args.ingredients) >= 1
        THEN /\ Len(fnOutput) = 1
             /\ fnOutput[1].instruction = <<"Prepare ingredients">>
             /\ fnOutput[1].ingredients = fnInput.args.ingredients
        ELSE fnOutput = <<>>

\* An empty step list with two ingredients has got its one step.
C24_Witness ==
    /\ fnOp = "mapSteps"
    /\ fnInput.args.steps = <<<<>>>>
    /\ fnInput.args.ingredients = <<"i1", "i2">>
    /\ Len(fnOutput) = 1
    /\ fnOutput[1].ingredients = <<"i1", "i2">>


\* ------------------------------------------------------------------ C25
\* The candidate taken from the record the model answered, and whether the
\* HEAD request for it was answered ok.
Candidate == ImageCandidate(GetProp(Get(parsedRecipe), IMAGE))
BeginsWithHttp(candidate) ==
    /\ candidate # <<>>
    /\ candidate[1].t = "string"
    /\ Len(candidate[1].str) >= 4
    /\ SubSeq(candidate[1].str, 1, 4) = <<"h", "t", "t", "p">>
HeadSucceeded == \E i \in 1..Len(extractLog) : extractLog[i].call = "HEAD" /\ extractLog[i].ok

\* C25: an extraction whose answer is a record completes with status 200; the
\* record's image is the candidate when the candidate begins with http and
\* its HEAD check succeeded, and the fallback URL of the record in every other
\* case.
C25_CandidateOrFallback ==
    (extractPc = "done" /\ IsSome(parsedRecipe) /\ Get(parsedRecipe).t = "object") =>
        /\ Get(extractResult).status = 200
        /\ GetProp(Get(extractResult).body, IMAGE) =
              IF BeginsWithHttp(Candidate) /\ HeadSucceeded
              THEN Candidate
              ELSE Some(JStr(generateFallbackImageUrl(Get(extractResult).body)))


\* ------------------------------------------------------------------ C26
\* C26: a content fetch that was not answered with a success status, be it a
\* throw or a status that is not ok, ends the extraction with the fetch error,
\* and the model is never called.
C26_NonSuccessIsFetchError ==
    \A i \in 1..Len(extractLog) :
        (extractLog[i].call = "fetchUrlContent" /\ ~extractLog[i].httpOk) =>
            /\ \A j \in 1..Len(extractLog) : extractLog[j].call # "generateContent"
            /\ extractPc = "done"
            /\ extractResult # <<>>
            /\ extractResult[1].status = 400
            /\ extractResult[1].error = <<"Failed to fetch URL">>


\* ------------------------------------------------------------------ C27
\* {base} followed by the segments of a path.
UnderBase(segments) ==
    [origin |-> Get(request).baseUrl.origin, path |-> Get(request).baseUrl.path \o segments]

\* C27: whatever the base URL, with or without a path of its own, the parse
\* request goes to {base}/api/recipe-from-source/, the create request to
\* {base}/api/recipe/ and the image upload to {base}/api/recipe/{id}/image/.
C27_TargetsUnderBase ==
    \A i \in 1..Len(log) :
        /\ log[i].op = "parse" => log[i].target = UnderBase(<<"api", "recipe-from-source", "">>)
        /\ log[i].op = "create" => log[i].target = UnderBase(<<"api", "recipe", "">>)
        /\ log[i].op = "upload" =>
              \E id \in {"0", "7", "undefined"} :
                  log[i].target = UnderBase(<<"api", "recipe", id, "image", "">>)


\* ------------------------------------------------------------------ C28
CreateAttemptsBefore(i) == {j \in 1..(i - 1) : log[j].op = "create"}

\* C28: the image upload is sent under the scheme of the last attempt of the
\* createRecipe that went before it, the attempt that created the recipe:
\* Token when the first attempt was not rejected, Bearer otherwise.
C28_UploadUnderCreateScheme ==
    \A i \in 1..Len(log) :
        log[i].op = "upload" =>
            /\ CreateAttemptsBefore(i) # {}
            /\ LET first == Least(CreateAttemptsBefore(i))
                   last == Greatest(CreateAttemptsBefore(i))
               IN /\ log[i].scheme = log[last].scheme
                  /\ Succeeded(log[last])
                  /\ log[i].scheme = IF Succeeded(log[first]) THEN "Token" ELSE "Bearer"

\* A recipe created on the retry under Bearer has had its image uploaded
\* under Bearer.
C28_Witness ==
    /\ Len(log) >= 4
    /\ log[Len(log)].op = "upload" /\ log[Len(log)].scheme = "Bearer"
    /\ log[Len(log) - 2].op = "create" /\ log[Len(log) - 2].scheme = "Bearer"
    /\ log[Len(log) - 3].op = "create" /\ log[Len(log) - 3].scheme = "Token"


\* ------------------------------------------------------------------ C30
\* C30: refining a refined list changes nothing; and when refineTandoorSteps
\* has split a step, the instructions of the new steps are the non-empty
\* trimmed lines of the original instruction, all of them and in their order,
\* none empty and none with a newline.
C30_RefineIdempotentKeepsText ==
    (fnOp = "refineTandoorSteps") =>
        /\ refineTandoorSteps(fnOutput) = fnOutput
        /\ fnOutput # fnInput.steps =>
              LET s == Get(fnInput.steps)[1].instruction[1]
                  out == fnOutput[1]
              IN /\ Len(out) = Cardinality(KeptLines(s))
                 /\ \A i \in 1..Len(out) :
                       /\ out[i].instruction = <<NthKeptLine(s, i)>>
                       /\ out[i].instruction[1] # <<>>
                       /\ \A k \in 1..Len(out[i].instruction[1]) :
                             out[i].instruction[1][k] # NL

\* A step of two lines around an empty one has been split in two, and
\* refining the two steps again gives the same two steps.
C30_Witness ==
    /\ fnOp = "refineTandoorSteps"
    /\ fnInput.steps # <<>>
    /\ Len(fnInput.steps[1]) = 1
    /\ fnInput.steps[1][1].instruction = <<<<"a", NL, NL, "b">>>>
    /\ Len(fnOutput[1]) = 2
    /\ fnOutput[1][1].instruction = <<<<"a">>>>
    /\ fnOutput[1][2].instruction = <<<<"b">>>>
    /\ refineTandoorSteps(fnOutput) = fnOutput

====
